---- MODULE Spec2Model ----
\* A model of the ABIT document codec (src/abit.go): the value model with its
\* Put/Add/Remove mutations over the Go heap, the encoder, the decoder, the
\* variable-width integer codec, the typed array accessors and the lexicon.
\*
\* Conventions
\*   byte        a number in 0..255
\*   []byte      a sequence of bytes; Go offsets are 0-based, so the byte at Go
\*               offset i of blob is blob[i+1]
\*   string      a sequence of bytes (Go strings are byte strings; len() and <
\*               act on the bytes)
\*   int64       its 8 bytes in little-endian two's complement (TLC's integers
\*               are 32 bits wide, the program's are 64)
\*   error       the bytes of the text err.Error() returns, <<>> for nil;
\*               Text("...") is the bytes of a literal of the source
EXTENDS Integers, Sequences, FiniteSets, TLC

VARIABLES
  maps,     \* Go heap: map id -> the map[string]*ABITObject stored there
  arrs,     \* Go heap: ABITArray cell id -> its slice header [bk, len]
  backs,    \* Go heap: backing array id -> its slots (Len = capacity)
  lastOp,   \* the last public operation called on the heap and what it returned
  buf,      \* decoder input: the buffer handed to NewABITObject
  res,      \* what NewABITObject(buf) returned
  steps,    \* how many operations were called on the heap
  hand,     \* the pairs a hand-built buffer was laid out from; the lexicon
            \* InitLexicon returned
  ival,     \* integer codec input: an int64
  ienc,     \* what encodeInteger(ival, type) or encodeBlob returned
  arg,      \* the arguments of a function called on values built beforehand
  ret       \* what the function called on arg returned

vars ==
  <<maps, arrs, backs, lastOp, steps, buf, res, hand, ival, ienc, arg, ret>>

\* the value of a variable the specification at hand does not use
Idle == "idle"

----------------------------------------------------------------------------
\* Bytes and slices

\* (*blob)[i]
At(blob, i) == blob[i + 1]

\* (*blob)[lo:hi]
Slice(blob, lo, hi) == SubSeq(blob, lo + 1, hi)

\* r := v; Rest(r): the value a call returns, named for the code after it
Bind(v, Rest(_)) == Rest(v)

\* Text. An error text is the bytes of the string err.Error() returns, so a
\* key that fmt.Errorf writes under %s stands in it byte for byte, whatever
\* its bytes are.

\* the characters of the codes 32..95 and 97..126, in order
Printable ==
  " !\"#$%&'()*+,-./0123456789:;<=>?@ABCDEFGHIJKLMNOPQRSTUVWXYZ[\\]^_abcdefghijklmnopqrstuvwxyz{|}~"

\* the code of a character of Printable
CodeOf ==
  [c \in {SubSeq(Printable, p, p) : p \in 1..Len(Printable)} |->
     Bind(CHOOSE p \in 1..Len(Printable) : SubSeq(Printable, p, p) = c,
          LAMBDA p : IF p <= 64 THEN 31 + p ELSE 32 + p)]

\* the bytes of a string literal of the source
Text(s) == [i \in 1..Len(s) |-> CodeOf[SubSeq(s, i, i)]]

RECURSIVE DecimalText(_)
\* what %d writes for the integer n
DecimalText(n) ==
  IF n < 0 THEN <<45>> \o DecimalText(0 - n)
  ELSE IF n < 10 THEN <<48 + n>>
  ELSE DecimalText(n \div 10) \o <<48 + (n % 10)>>

----------------------------------------------------------------------------
\* int64 as 8 little-endian two's-complement bytes

I64Zero == <<0, 0, 0, 0, 0, 0, 0, 0>>

RECURSIVE MulAddFrom(_, _, _, _)
\* bytes i..8 of v * m + carry (mod 2^64)
MulAddFrom(v, m, i, carry) ==
  IF i > 8 THEN <<>>
  ELSE LET t == v[i] * m + carry
       IN  <<t % 256>> \o MulAddFrom(v, m, i + 1, t \div 256)

RECURSIVE DecFrom(_, _, _)
DecFrom(ds, i, acc) ==
  IF i > Len(ds) THEN acc
  ELSE DecFrom(ds, i + 1, MulAddFrom(acc, 10, 1, ds[i]))

\* the int64 written in decimal with the digits ds (a non-negative literal)
Dec(ds) == DecFrom(ds, 1, I64Zero)

\* -v
Neg(v) == MulAddFrom([i \in 1..8 |-> 255 - v[i]], 1, 1, 1)

\* int64(n) for a Go int n >= 0 that fits 31 bits (a length)
I64FromInt(n) ==
  [i \in 1..8 |-> IF i > 4 THEN 0
                  ELSE CASE i = 1 -> n % 256
                         [] i = 2 -> (n \div 256) % 256
                         [] i = 3 -> (n \div 65536) % 256
                         [] i = 4 -> (n \div 16777216) % 256]

I64IsNeg(v) == v[8] >= 128

\* the number v, for a v that fits the signed 32-bit range
I64ToInt(v) ==
  v[1] + v[2] * 256 + v[3] * 65536
    + (IF v[4] >= 128 THEN v[4] - 256 ELSE v[4]) * 16777216

\* digit i of v for the signed comparison: the top byte counts as signed
I64Digit(v, i) == IF i = 8 /\ v[8] >= 128 THEN v[8] - 256 ELSE v[i]

RECURSIVE I64LessFrom(_, _, _)
I64LessFrom(a, b, i) ==
  IF i = 0 THEN FALSE
  ELSE IF I64Digit(a, i) # I64Digit(b, i) THEN I64Digit(a, i) < I64Digit(b, i)
  ELSE I64LessFrom(a, b, i - 1)

\* a < b, a <= b on int64
I64Less(a, b) == I64LessFrom(a, b, 8)
I64Leq(a, b) == a = b \/ I64Less(a, b)

----------------------------------------------------------------------------
\* Type codes (the low nibble of a tag byte)

TNull == 0
TBoolean == 1
TInteger == 2
TBlob == 3
TString == 4
TArray == 5
TTree == 6

----------------------------------------------------------------------------
\* Values with every pointer followed (what a decoded document is, and what
\* the encoder sees of an acyclic heap): the fields of ABITObject that the
\* dataType selects.

ONull == [dataType |-> TNull]
OBool(b) == [dataType |-> TBoolean, boolean |-> b]
OInt(v) == [dataType |-> TInteger, integer |-> v]
OBlob(s) == [dataType |-> TBlob, blob |-> s]
OText(s) == [dataType |-> TString, text |-> s]
OArray(a) == [dataType |-> TArray, array |-> a]
OTree(t) == [dataType |-> TTree, tree |-> t]

\* map[string]*ABITObject{}
EmptyMap == [k \in {} |-> ONull]

\* t.tree[key] = o
MapPut(t, key, o) == [k \in DOMAIN t \cup {key} |-> IF k = key THEN o ELSE t[k]]

\* delete(t.tree, key)
MapDelete(t, key) == [k \in DOMAIN t \ {key} |-> t[k]]

----------------------------------------------------------------------------
\* Strings and key order

RECURSIVE StrLessFrom(_, _, _)
StrLessFrom(a, b, i) ==
  IF i > Len(a) THEN i <= Len(b)
  ELSE IF i > Len(b) THEN FALSE
  ELSE IF a[i] # b[i] THEN a[i] < b[i]
  ELSE StrLessFrom(a, b, i + 1)

\* Go's a < b on strings: byte-wise lexicographic
StrLess(a, b) == StrLessFrom(a, b, 1)

RECURSIVE SeqOfSet(_)
\* the elements of a finite set in some fixed order
SeqOfSet(S) ==
  IF S = {} THEN <<>>
  ELSE LET x == CHOOSE x \in S : TRUE IN <<x>> \o SeqOfSet(S \ {x})

\* for k := range m: Go fixes no iteration order. The order is an input: the
\* keys of the sequence it come first, in its order, then the other keys.
RangeKeys(t, it) ==
  SelectSeq(it, LAMBDA k : k \in DOMAIN t)
    \o SeqOfSet(DOMAIN t \ {it[i] : i \in DOMAIN it})

\* a less function that compares the bytes alone
SortLessBytes(a, b) == StrLess(a, b)

\* the less function encodeTree hands to sort.Slice
SortLess(a, b) ==
  IF Len(a) = Len(b) THEN StrLess(a, b) ELSE Len(a) < Len(b)

RECURSIVE SortInsert(_, _)
SortInsert(sorted, k) ==
  IF sorted = <<>> THEN <<k>>
  ELSE IF SortLess(k, Head(sorted)) THEN <<k>> \o sorted
  ELSE <<Head(sorted)>> \o SortInsert(Tail(sorted), k)

RECURSIVE SortFrom(_, _, _)
SortFrom(keys, i, sorted) ==
  IF i > Len(keys) THEN sorted
  ELSE SortFrom(keys, i + 1, SortInsert(sorted, keys[i]))

\* sort.Slice(keys, less): the keys are distinct and less is a strict total
\* order on them, so every sorting algorithm yields the same slice
SortSlice(keys) == SortFrom(keys, 1, <<>>)

\* a comparison that lets a key follow itself
keyCompareOrEqual(a, b) ==
  a = b \/ (IF Len(a) = Len(b) THEN StrLess(a, b) ELSE Len(a) < Len(b))

keyCompare(a, b) ==
  IF Len(a) = Len(b) THEN StrLess(a, b) ELSE Len(a) < Len(b)

----------------------------------------------------------------------------
\* Encoder

encodeKey(value) ==
  IF Len(value) > 256 THEN [err |-> Text("key too long"), val |-> <<>>]
  ELSE IF Len(value) < 1 THEN [err |-> Text("key too short"), val |-> <<>>]
  ELSE [err |-> <<>>, val |-> <<Len(value) - 1>> \o value]

encodeNull == <<0>>

encodeBoolean(value) == IF value THEN <<17>> ELSE <<1>>

\* the literals of encodeInteger's switch, case by case: the least and the
\* greatest value of the case
CaseLo ==
  << Neg(Dec(<<1,2,8>>)),
     Neg(Dec(<<3,2,7,6,8>>)),
     Neg(Dec(<<8,3,8,8,6,0,8>>)),
     Neg(Dec(<<2,1,4,7,4,8,3,6,4,8>>)),
     Neg(Dec(<<5,4,9,7,5,5,8,1,3,8,8,8>>)),
     Neg(Dec(<<1,4,0,7,3,7,4,8,8,3,5,5,3,2,8>>)),
     Neg(Dec(<<3,6,0,2,8,7,9,7,0,1,8,9,6,3,9,6,8>>)) >>

CaseHi ==
  << Dec(<<1,2,7>>),
     Dec(<<3,2,7,6,7>>),
     Dec(<<8,3,8,8,6,0,7>>),
     Dec(<<2,1,4,7,4,8,3,6,4,7>>),
     Dec(<<5,4,9,7,5,5,8,1,3,8,8,7>>),
     Dec(<<1,4,0,7,3,7,4,8,8,3,5,5,3,2,7>>),
     Dec(<<3,6,0,2,8,7,9,7,0,1,8,9,6,3,9,6,7>>) >>

\* a switch whose cases test the upper literal alone
InCaseNoLo(value, n) == I64Leq(value, CaseHi[n])

\* case value >= lo && value <= hi of the switch
InCase(value, n) == I64Leq(CaseLo[n], value) /\ I64Leq(value, CaseHi[n])

\* the byteCount encodeInteger's switch sets for value: the first case that
\* holds, 8 by default
ByteCount(value) ==
  IF InCase(value, 1) THEN 1
  ELSE IF InCase(value, 2) THEN 2
  ELSE IF InCase(value, 3) THEN 3
  ELSE IF InCase(value, 4) THEN 4
  ELSE IF InCase(value, 5) THEN 5
  ELSE IF InCase(value, 6) THEN 6
  ELSE IF InCase(value, 7) THEN 7
  ELSE 8

\* binary.LittleEndian.PutUint64(buf, uint64(value)); the tag byte has
\* byteCount-1 in its high nibble and type_n in its low nibble
encodeInteger(value, type_n) ==
  LET byteCount == ByteCount(value)
  IN  <<(byteCount - 1) * 16 + (type_n % 16)>> \o SubSeq(value, 1, byteCount)

encodeBlob(value, type_n) ==
  encodeInteger(I64FromInt(Len(value)), type_n) \o value

encodeString(value) == encodeBlob(value, TString)

RECURSIVE encodeArray(_, _), encodeArrayFrom(_, _, _, _)
RECURSIVE encodeTree(_, _, _), encodeTreeFrom(_, _, _, _, _)

\* the switch on obj.dataType in encodeArray and in encodeTree
encodeObject(obj, it) ==
  CASE obj.dataType = TNull -> [err |-> <<>>, val |-> encodeNull]
    [] obj.dataType = TBoolean -> [err |-> <<>>, val |-> encodeBoolean(obj.boolean)]
    [] obj.dataType = TInteger ->
         [err |-> <<>>, val |-> encodeInteger(obj.integer, TInteger)]
    [] obj.dataType = TBlob -> [err |-> <<>>, val |-> encodeBlob(obj.blob, TBlob)]
    [] obj.dataType = TString -> [err |-> <<>>, val |-> encodeString(obj.text)]
    [] obj.dataType = TArray -> encodeArray(obj.array, it)
    [] obj.dataType = TTree -> encodeTree(obj, TRUE, it)
    [] OTHER -> [err |-> Text("object in array is of invalid type"), val |-> <<>>]

\* the loop of encodeArray from element i on, buffer holding what is written
encodeArrayFrom(value, i, buffer, it) ==
  IF i > Len(value) THEN [err |-> <<>>, val |-> encodeBlob(buffer, TArray)]
  ELSE Bind(encodeObject(value[i], it), LAMBDA p :
         IF p.err # <<>> THEN [err |-> p.err, val |-> <<>>]
         ELSE encodeArrayFrom(value, i + 1, buffer \o p.val, it))

encodeArray(value, it) == encodeArrayFrom(value, 1, <<>>, it)

\* the loop of encodeTree over the sorted keys from key i on
encodeTreeFrom(value, keys, i, buffer, it) ==
  IF i > Len(keys) THEN [err |-> <<>>, val |-> buffer]
  ELSE Bind(encodeKey(keys[i]), LAMBDA p :
         IF p.err # <<>> THEN [err |-> p.err, val |-> <<>>]
         ELSE Bind(encodeObject(value[keys[i]], it), LAMBDA q :
                IF q.err # <<>> THEN [err |-> q.err, val |-> <<>>]
                ELSE encodeTreeFrom(value, keys, i + 1,
                                    buffer \o p.val \o q.val, it)))

\* encodeTree(value, nested), ranging over value.tree in the order it
encodeTree(value, nested, it) ==
  Bind(encodeTreeFrom(value.tree, SortSlice(RangeKeys(value.tree, it)), 1,
                      <<>>, it),
       LAMBDA p :
         IF p.err # <<>> THEN p
         ELSE IF nested THEN [err |-> <<>>, val |-> encodeBlob(p.val, TTree)]
         ELSE p)

----------------------------------------------------------------------------
\* Decoder. Every decode function returns [err, val, off]: the error (<<>> for
\* nil), the value and the offset after it, as the Go function returns them
\* (on an error the offset is 0 and the value is what was built so far).

\* The one outcome that is no return: the array loop of decodeArray comes back
\* to an index it has already been at, and so runs forever.
Diverges == <<-1>>

\* a decodeKey that adds the 1 in eight bits
decodeKeyWrap(blob, offset) ==
  IF offset < 0 \/ offset >= Len(blob)
  THEN [err |-> Text("key out of bounds"), val |-> <<>>, off |-> 0]
  ELSE LET keyLength == (At(blob, offset) + 1) % 256
       IN  IF offset + 1 + keyLength > Len(blob)
           THEN [err |-> Text("key out of bounds"), val |-> <<>>, off |-> 0]
           ELSE [err |-> <<>>,
                 val |-> Slice(blob, offset + 1, offset + 1 + keyLength),
                 off |-> offset + 1 + keyLength]

decodeKey(blob, offset) ==
  IF offset < 0 \/ offset >= Len(blob)
  THEN [err |-> Text("key out of bounds"), val |-> <<>>, off |-> 0]
  ELSE LET keyLength == At(blob, offset) + 1
       IN  IF offset + 1 + keyLength > Len(blob)
           THEN [err |-> Text("key out of bounds"), val |-> <<>>, off |-> 0]
           ELSE [err |-> <<>>,
                 val |-> Slice(blob, offset + 1, offset + 1 + keyLength),
                 off |-> offset + 1 + keyLength]

decodeType(blob, offset) ==
  IF offset < 0 \/ offset >= Len(blob)
  THEN [err |-> Text("type exceeds blob"), val |-> 0]
  ELSE [err |-> <<>>, val |-> At(blob, offset) % 16]

\* a decodeNull that tests the type nibble alone
decodeNullByNibble(blob, offset) ==
  IF offset < 0 \/ offset >= Len(blob)
  THEN [err |-> Text("null exceeds blob"), off |-> 0]
  ELSE IF At(blob, offset) % 16 # 0 THEN [err |-> Text("byte is not null"), off |-> 0]
  ELSE [err |-> <<>>, off |-> offset + 1]

decodeNull(blob, offset) ==
  IF offset < 0 \/ offset >= Len(blob)
  THEN [err |-> Text("null exceeds blob"), off |-> 0]
  ELSE IF At(blob, offset) # 0 THEN [err |-> Text("byte is not null"), off |-> 0]
  ELSE [err |-> <<>>, off |-> offset + 1]

decodeBoolean(blob, offset) ==
  IF offset < 0 \/ offset >= Len(blob)
  THEN [err |-> Text("bool exceeds blob"), val |-> FALSE, off |-> 0]
  ELSE CASE At(blob, offset) = 17 -> [err |-> <<>>, val |-> TRUE, off |-> offset + 1]
         [] At(blob, offset) = 1 -> [err |-> <<>>, val |-> FALSE, off |-> offset + 1]
         [] OTHER -> [err |-> Text("byte is not boolean"), val |-> FALSE, off |-> 0]

\* a decodeInteger that takes any byte count, whatever maxSize is
decodeIntegerAnySize(blob, offset, maxSize) ==
  IF offset < 0 \/ offset >= Len(blob)
  THEN [err |-> Text("integer exceeds blob"), val |-> I64Zero, off |-> 0]
  ELSE LET intSize == (At(blob, offset) \div 16) + 1
       IN  IF offset + 1 + intSize > Len(blob)
           THEN [err |-> Text("integer is out of bounds"), val |-> I64Zero, off |-> 0]
           ELSE LET sign == At(blob, offset + 1 + intSize - 1) >= 128
                    extended ==
                      [i \in 1..8 |->
                         IF i <= intSize THEN At(blob, offset + i)
                         ELSE IF sign THEN 255 ELSE 0]
                IN  [err |-> <<>>, val |-> extended, off |-> offset + 1 + intSize]

\* a decodeInteger that fills the high bytes with zeros whatever the sign bit
decodeIntegerUnsigned(blob, offset, maxSize) ==
  IF offset < 0 \/ offset >= Len(blob)
  THEN [err |-> Text("integer exceeds blob"), val |-> I64Zero, off |-> 0]
  ELSE LET intSize == (At(blob, offset) \div 16) + 1
       IN  IF maxSize < intSize
           THEN [err |-> Text("integer is too big at ") \o DecimalText(offset),
                 val |-> I64Zero, off |-> 0]
           ELSE IF offset + 1 + intSize > Len(blob)
           THEN [err |-> Text("integer is out of bounds"), val |-> I64Zero, off |-> 0]
           ELSE LET extended ==
                      [i \in 1..8 |->
                         IF i <= intSize THEN At(blob, offset + i) ELSE 0]
                IN  [err |-> <<>>, val |-> extended, off |-> offset + 1 + intSize]

decodeInteger(blob, offset, maxSize) ==
  IF offset < 0 \/ offset >= Len(blob)
  THEN [err |-> Text("integer exceeds blob"), val |-> I64Zero, off |-> 0]
  ELSE LET intSize == (At(blob, offset) \div 16) + 1
       IN  IF maxSize < intSize
           THEN [err |-> Text("integer is too big at ") \o DecimalText(offset),
                 val |-> I64Zero, off |-> 0]
           ELSE IF offset + 1 + intSize > Len(blob)
           THEN [err |-> Text("integer is out of bounds"), val |-> I64Zero, off |-> 0]
           ELSE LET sign == At(blob, offset + 1 + intSize - 1) >= 128
                    extended ==
                      [i \in 1..8 |->
                         IF i <= intSize THEN At(blob, offset + i)
                         ELSE IF sign THEN 255 ELSE 0]
                IN  [err |-> <<>>, val |-> extended, off |-> offset + 1 + intSize]

\* a decodeBlob that takes what is left of the buffer when the length field
\* asks for more
decodeBlobLenient(blob, offset) ==
  Bind(decodeInteger(blob, offset, 4), LAMBDA r :
    IF r.err # <<>> THEN [err |-> r.err, val |-> <<>>, off |-> 0]
    ELSE IF I64IsNeg(r.val)
    THEN [err |-> Text("negative length for blob"), val |-> <<>>, off |-> 0]
    ELSE IF Len(blob) - r.off < I64ToInt(r.val)
    THEN [err |-> <<>>, val |-> Slice(blob, r.off, Len(blob)), off |-> Len(blob)]
    ELSE [err |-> <<>>,
          val |-> Slice(blob, r.off, r.off + I64ToInt(r.val)),
          off |-> r.off + I64ToInt(r.val)])

\* the length field holds at most 4 bytes, so blobLength fits 32 bits;
\* len(*blob) < offset+blobLength is written without the sum, which is
\* beyond TLC's integers for the largest lengths
decodeBlob(blob, offset) ==
  Bind(decodeInteger(blob, offset, 4), LAMBDA r :
    IF r.err # <<>> THEN [err |-> r.err, val |-> <<>>, off |-> 0]
    ELSE IF I64IsNeg(r.val)
    THEN [err |-> Text("negative length for blob"), val |-> <<>>, off |-> 0]
    ELSE IF Len(blob) - r.off < I64ToInt(r.val)
    THEN [err |-> Text("length for blob exceeds the blob"), val |-> <<>>, off |-> 0]
    ELSE [err |-> <<>>,
          val |-> Slice(blob, r.off, r.off + I64ToInt(r.val)),
          off |-> r.off + I64ToInt(r.val)])

decodeString(blob, offset) == decodeBlob(blob, offset)

RECURSIVE decodeArray(_, _), decodeArrayLoop(_, _, _, _)
RECURSIVE decodeTree(_, _, _), decodeTreeLoop(_, _, _, _, _)

\* what a decode function returned, its value made the ABITObject Make builds
Stored(r, Make(_)) == [err |-> r.err, val |-> Make(r.val), off |-> r.off]

\* the switch on typ in the loop of decodeArray and in the loop of
\* decodeTree (the same cases in both): the value at index of blob
decodeValue(blob, index, typ) ==
  CASE typ = TNull ->
         Bind(decodeNull(blob, index), LAMBDA r :
           [err |-> r.err, val |-> ONull, off |-> r.off])
    [] typ = TBoolean -> Stored(decodeBoolean(blob, index), OBool)
    [] typ = TInteger -> Stored(decodeInteger(blob, index, 8), OInt)
    [] typ = TBlob -> Stored(decodeBlob(blob, index), OBlob)
    [] typ = TString -> Stored(decodeString(blob, index), OText)
    [] typ = TArray -> Stored(decodeArray(blob, index), OArray)
    [] typ = TTree -> decodeTree(blob, index, TRUE)
    [] OTHER -> [err |-> Text("invalid type"), val |-> ONull, off |-> 0]

\* for int(index) < len(arrBlob) { ... }: arr is what is appended so far,
\* seen the indexes the loop has been at. The loop state is index alone, so
\* coming back to a seen index repeats for ever.
decodeArrayLoop(arrBlob, index, arr, seen) ==
  IF ~(index < Len(arrBlob))
  THEN IF index > Len(arrBlob)
       THEN [err |-> Text("corrupt array"), val |-> arr, off |-> 0]
       ELSE [err |-> <<>>, val |-> arr, off |-> index]
  ELSE IF index \in seen THEN [err |-> Diverges, val |-> arr, off |-> 0]
  ELSE Bind(decodeType(arrBlob, index), LAMBDA t :
         IF t.err # <<>> THEN [err |-> t.err, val |-> arr, off |-> 0]
         ELSE Bind(decodeValue(arrBlob, index, t.val), LAMBDA e :
                IF e.err # <<>> THEN [err |-> e.err, val |-> arr, off |-> 0]
                ELSE decodeArrayLoop(arrBlob, e.off, Append(arr, e.val),
                                     seen \cup {index})))

\* returns the ABITArray (its elements), and the offset after the payload
decodeArray(blob, offset) ==
  Bind(decodeBlob(blob, offset), LAMBDA b :
    IF b.err # <<>> THEN [err |-> b.err, val |-> <<>>, off |-> 0]
    ELSE Bind(decodeArrayLoop(b.val, 0, <<>>, {}), LAMBDA r :
           IF r.err # <<>> THEN r
           ELSE [err |-> <<>>, val |-> r.val, off |-> b.off]))

\* for index < offset { ... } and the return after it; tree is the map
\* filled so far. Every pass takes a key greater than lastKey, so the loop
\* cannot come back to a state it has been in.
decodeTreeLoop(blob, index, offset, lastKey, tree) ==
  IF ~(index < offset)
  THEN IF index > Len(blob)
       THEN [err |-> Text("corrupt array"), val |-> OTree(tree), off |-> 0]
       ELSE [err |-> <<>>, val |-> OTree(tree), off |-> offset, index |-> index]
  ELSE Bind(decodeKey(blob, index), LAMBDA k :
         IF k.err # <<>> THEN [err |-> k.err, val |-> OTree(tree), off |-> 0]
         ELSE IF ~keyCompare(lastKey, k.val)
         THEN [err |-> Text("invalid key order: (") \o DecimalText(Len(lastKey))
                         \o Text(")->(") \o DecimalText(Len(k.val))
                         \o Text("), ") \o lastKey \o Text(" -> ") \o k.val,
               val |-> OTree(tree), off |-> 0]
         ELSE Bind(decodeType(blob, k.off), LAMBDA t :
                IF t.err # <<>>
                THEN [err |-> t.err, val |-> OTree(tree), off |-> 0]
                ELSE Bind(decodeValue(blob, k.off, t.val), LAMBDA v :
                       IF v.err # <<>>
                       THEN [err |-> v.err, val |-> OTree(tree), off |-> 0]
                       ELSE decodeTreeLoop(blob, v.off, offset, k.val,
                                           MapPut(tree, k.val, v.val)))))

\* offset = index + treeSize. The loop never takes index beyond len(*blob), so
\* every end beyond it acts as len(*blob)+1 does: the sum is cut there, where
\* it would leave TLC's integers.
TreeEnd(blob, index, treeSize) ==
  IF treeSize > Len(blob) - index THEN Len(blob) + 1 ELSE index + treeSize

decodeTree(blob, offset, nested) ==
  IF nested
  THEN Bind(decodeInteger(blob, offset, 4), LAMBDA r :
         IF r.err # <<>> THEN [err |-> r.err, val |-> OTree(EmptyMap), off |-> 0]
         ELSE decodeTreeLoop(blob, r.off,
                             TreeEnd(blob, r.off, I64ToInt(r.val)), <<>>,
                             EmptyMap))
  ELSE decodeTreeLoop(blob, 0, Len(blob), <<>>, EmptyMap)

\* the *ABITObject no document is returned as
Nil == [dataType |-> -1]

\* res before NewABITObject is called
NoRes == [doc |-> Nil, err |-> <<-2>>]

\* lastOp before any operation is called
NoOp == [op |-> "none"]

\* a NewABITObject that hands out the tree decodeTree had built when it failed
NewABITObjectPartial(document) ==
  IF Len(document) > 0
  THEN Bind(decodeTree(document, 0, FALSE), LAMBDA r :
         [doc |-> r.val, err |-> r.err])
  ELSE [doc |-> OTree(EmptyMap), err |-> <<>>]

\* (*ABITObject, error); a call that never returns has err = Diverges
NewABITObject(document) ==
  IF Len(document) > 0
  THEN Bind(decodeTree(document, 0, FALSE), LAMBDA r :
         IF r.err # <<>> THEN [doc |-> Nil, err |-> r.err]
         ELSE [doc |-> r.val, err |-> <<>>])
  ELSE [doc |-> OTree(EmptyMap), err |-> <<>>]

\* ([]byte, error) of t.ToByteArray(): return *p, err. encodeTree returns a
\* nil p with an error, and *p then panics.
ToByteArray(t, it) ==
  Bind(encodeTree(t, FALSE, it), LAMBDA p :
    [val |-> p.val, err |-> p.err, panic |-> p.err # <<>>])

----------------------------------------------------------------------------
\* The Go heap. An ABITObject is a struct value; of its fields only tree (a
\* map, which Go shares between the copies of the struct) and array (a
\* pointer to an ABITArray) refer to memory that changes, so an object is
\* modelled by its fields, tree being a map id and array an ABITArray cell id.
\* An ABITArray cell holds a slice header: a backing array, a length, and as
\* capacity the length of the backing array (every slice of the program
\* starts at slot 0 of its backing array).

HArray(c) == [dataType |-> TArray, array |-> c]
HTree(m) == [dataType |-> TTree, tree |-> m]

\* ABITObject{}: the zero value (dataType 0, a nil map)
ZeroObject == [dataType |-> TNull]

\* a nil slice
NilSlice == [bk |-> 0, len |-> 0]

Cap(h) == IF h.bk = 0 THEN 0 ELSE Len(backs[h.bk])

\* a.array as a sequence: a.array[0] .. a.array[len-1]
Elems(h) == IF h.bk = 0 THEN <<>> ELSE SubSeq(backs[h.bk], 1, h.len)

\* the element counts of the allocator's size classes for pointer slices
SizeClasses == {1, 2, 3, 4, 6, 8, 10, 12, 14, 16}

RoundUp(n) == CHOOSE c \in SizeClasses : c >= n /\ \A d \in SizeClasses : d >= n => c <= d

\* the capacity append gives a slice of capacity old that must hold newLen
GrowCap(old, newLen) ==
  RoundUp(IF newLen > 2 * old THEN newLen ELSE 2 * old)

\* a backing array of capacity cap holding elems
Backing(elems, cap) ==
  [i \in 1..cap |-> IF i <= Len(elems) THEN elems[i] ELSE Nil]

\* append(h, o): [h |-> the slice returned, backs |-> the backing arrays after]
AppendSlice(h, o) ==
  IF h.len < Cap(h)
  THEN [h |-> [bk |-> h.bk, len |-> h.len + 1],
        backs |-> [backs EXCEPT ![h.bk][h.len + 1] = o]]
  ELSE [h |-> [bk |-> Len(backs) + 1, len |-> h.len + 1],
        backs |-> Append(backs,
                         Backing(Append(Elems(h), o),
                                 GrowCap(Cap(h), h.len + 1)))]

\* ret := make([](*ABITObject), 0); ret = append(ret, a[:index]...);
\* append(ret, a[index+1:]...): the capacity of the slice that results
RemoveCap(n, index) ==
  LET cap1 == IF index = 0 THEN 0 ELSE RoundUp(index)
      rest == n - index - 1
  IN  IF rest = 0 \/ index + rest <= cap1 THEN cap1
      ELSE GrowCap(cap1, index + rest)

\* a Remove that joins the elements after the index before those in front of it
RemoveElemsSuffixFirst(elems, index) ==
  SubSeq(elems, index + 2, Len(elems)) \o SubSeq(elems, 1, index)

\* the elements of the slice Remove builds
RemoveElems(elems, index) ==
  SubSeq(elems, 1, index) \o SubSeq(elems, index + 2, Len(elems))

\* the values a caller can pass as interface{}: the Go type and the value
GoNull == [go |-> "Null"]
GoBool(b) == [go |-> "bool", boolean |-> b]
GoInt64(i) == [go |-> "int64", integer |-> i]
GoBytes(b) == [go |-> "[]byte", blob |-> b]
GoString(x) == [go |-> "string", text |-> x]
GoArray(h) == [go |-> "ABITArray", array |-> h]
GoObject(o) == [go |-> "ABITObject", object |-> o]
\* a value of a type the switch has no case for
GoInt == [go |-> "int"]

\* the switch of Put on value: the object o stored under the key, or the
\* error; an ABITArray is copied into the new cell c, an ABITObject is
\* copied as a struct (its tree is the same map)
PutSwitch(value, c) ==
  CASE value.go = "Null" -> [err |-> <<>>, o |-> ONull]
    [] value.go = "bool" -> [err |-> <<>>, o |-> OBool(value.boolean)]
    [] value.go = "int64" -> [err |-> <<>>, o |-> OInt(value.integer)]
    [] value.go = "[]byte" -> [err |-> <<>>, o |-> OBlob(value.blob)]
    [] value.go = "string" -> [err |-> <<>>, o |-> OText(value.text)]
    [] value.go = "ABITArray" -> [err |-> <<>>, o |-> HArray(c)]
    [] value.go = "ABITObject" ->
         IF value.object.dataType = TTree THEN [err |-> <<>>, o |-> value.object]
         ELSE [err |-> Text("ABITObject is invalid type"), o |-> Nil]
    [] OTHER -> [err |-> Text("unknown type"), o |-> Nil]

\* a check that lets the empty key in
PutKeyInvalidNoEmpty(key) == Len(key) > 256

\* a check that turns the key of 256 bytes away
PutKeyInvalidAt256(key) == Len(key) >= 256 \/ 0 >= Len(key)

\* len([]byte(key)) > 256 || 0 >= len([]byte(key))
PutKeyInvalid(key) == Len(key) > 256 \/ 0 >= Len(key)

\* t.Put(key, value): [err, maps, arrs], the error and the heap after
PutResult(t, key, value) ==
  LET r == PutSwitch(value, Len(arrs) + 1)
  IN  IF t.dataType # TTree
      THEN [err |-> Text("ABITObject is invalid type"), maps |-> maps, arrs |-> arrs]
      ELSE IF PutKeyInvalid(key)
      THEN [err |-> Text("key too long"), maps |-> maps, arrs |-> arrs]
      ELSE IF r.err # <<>> THEN [err |-> r.err, maps |-> maps, arrs |-> arrs]
      ELSE [err |-> <<>>,
            maps |-> [maps EXCEPT ![t.tree] = MapPut(@, key, r.o)],
            arrs |-> IF value.go = "ABITArray" THEN Append(arrs, value.array)
                     ELSE arrs]

\* the switch of Add on value
AddSwitch(value, c) ==
  CASE value.go = "Null" -> [err |-> <<>>, o |-> ONull]
    [] value.go = "bool" -> [err |-> <<>>, o |-> OBool(value.boolean)]
    [] value.go = "int64" -> [err |-> <<>>, o |-> OInt(value.integer)]
    [] value.go = "[]byte" -> [err |-> <<>>, o |-> OBlob(value.blob)]
    [] value.go = "string" -> [err |-> <<>>, o |-> OText(value.text)]
    [] value.go = "ABITArray" -> [err |-> <<>>, o |-> HArray(c)]
    [] value.go = "ABITObject" ->
         IF value.object.dataType = TTree THEN [err |-> <<>>, o |-> value.object]
         ELSE [err |-> Text("ABITObject is not a valid type"), o |-> Nil]
    [] OTHER -> [err |-> Text("unsupported type"), o |-> Nil]

\* a.Add(value) on the cell a: [err, arrs, backs]
AddResult(a, value) ==
  LET r == AddSwitch(value, Len(arrs) + 1)
      s == AppendSlice(arrs[a], r.o)
      copied == IF value.go = "ABITArray" THEN Append(arrs, value.array) ELSE arrs
  IN  IF r.err # <<>> THEN [err |-> r.err, arrs |-> arrs, backs |-> backs]
      ELSE [err |-> <<>>, arrs |-> [copied EXCEPT ![a] = s.h], backs |-> s.backs]

\* a Remove whose bounds check lets the index len(a.array) through
RemoveResultPastEnd(a, index) ==
  LET h == arrs[a]
      elems == RemoveElems(Elems(h), index)
      cap == RemoveCap(h.len, index)
  IN  IF index < 0 \/ index > h.len
      THEN [err |-> Text("index out of bounds"), arrs |-> arrs, backs |-> backs]
      ELSE IF cap = 0
      THEN [err |-> <<>>, arrs |-> [arrs EXCEPT ![a] = NilSlice], backs |-> backs]
      ELSE [err |-> <<>>,
            arrs |-> [arrs EXCEPT ![a] = [bk |-> Len(backs) + 1,
                                          len |-> Len(elems)]],
            backs |-> Append(backs, Backing(elems, cap))]

\* a.Remove(index) on the cell a: [err, arrs, backs]
RemoveResult(a, index) ==
  LET h == arrs[a]
      elems == RemoveElems(Elems(h), index)
      cap == RemoveCap(h.len, index)
  IN  IF index < 0 \/ index >= h.len
      THEN [err |-> Text("index out of bounds"), arrs |-> arrs, backs |-> backs]
      ELSE IF cap = 0
      THEN [err |-> <<>>, arrs |-> [arrs EXCEPT ![a] = NilSlice], backs |-> backs]
      ELSE [err |-> <<>>,
            arrs |-> [arrs EXCEPT ![a] = [bk |-> Len(backs) + 1,
                                          len |-> Len(elems)]],
            backs |-> Append(backs, Backing(elems, cap))]

\* the containers o points to directly: the values of its map, the elements
\* of its array
Children(o) ==
  CASE o.dataType = TTree -> {maps[o.tree][k] : k \in DOMAIN maps[o.tree]}
    [] o.dataType = TArray ->
         {Elems(arrs[o.array])[i] : i \in 1..arrs[o.array].len}
    [] OTHER -> {}

RECURSIVE HasCycle(_, _)
\* following child links from o leads back to a map or an array cell on the
\* way: path holds the maps and cells between the start and o
HasCycle(o, path) ==
  IF o.dataType \notin {TTree, TArray} THEN FALSE
  ELSE LET node == IF o.dataType = TTree THEN <<"map", o.tree>>
                   ELSE <<"cell", o.array>>
       IN  \/ node \in path
           \/ \E ch \in Children(o) : HasCycle(ch, path \cup {node})

RECURSIVE Deref(_)
\* o with every pointer followed (for an o that HasCycle does not hold of)
Deref(o) ==
  CASE o.dataType = TTree ->
         OTree([k \in DOMAIN maps[o.tree] |-> Deref(maps[o.tree][k])])
    [] o.dataType = TArray ->
         OArray([i \in 1..arrs[o.array].len |-> Deref(Elems(arrs[o.array])[i])])
    [] OTHER -> o

\* t.ToByteArray() on the heap: encodeTree recurses along the child links,
\* without end if they lead back (the goroutine's stack overflows: a fatal
\* error, no return)
HeapToByteArray(t, it) ==
  IF HasCycle(t, {})
  THEN [val |-> <<>>, err |-> <<>>, panic |-> FALSE, overflow |-> TRUE]
  ELSE Bind(ToByteArray(Deref(t), it), LAMBDA r :
         [val |-> r.val, err |-> r.err, panic |-> r.panic, overflow |-> FALSE])

----------------------------------------------------------------------------
\* Specification Spec: a program that builds documents on the heap with the
\* public operations, on every tree and array it can hold a pointer to (the
\* trees it made, the arrays it made, and through GetArray the arrays stored
\* in a tree or an array)

KeyB == <<98>>
KeyAA == <<97, 97>>
KeyAB == <<97, 98>>

MaxOps == 4
MaxMaps == 2
MaxCells == 2

Key256 == [i \in 1..256 |-> 32]
Key257 == [i \in 1..257 |-> 32]

Keys == {KeyB, KeyAA}

\* the trees and the array cells of the heap
Trees == {HTree(m) : m \in 1..Len(maps)}
Cells == 1..Len(arrs)

\* the values the program passes to Put and Add
Scalars == {GoNull, GoInt64(Dec(<<1,2,8>>))}
Values ==
  Scalars \cup {GoArray(arrs[c]) : c \in Cells} \cup {GoObject(t) : t \in Trees}
    \cup {GoObject(ZeroObject), GoInt}

\* the orders a range over a map of the program can take
Orders == {<<KeyB, KeyAA>>, <<KeyAA, KeyB>>}

Init ==
  /\ maps = <<EmptyMap>>
  /\ arrs = <<>>
  /\ backs = <<>>
  /\ lastOp = NoOp
  /\ steps = 0
  /\ buf = Idle /\ res = NoRes /\ hand = Idle /\ ival = Idle /\ ienc = Idle /\ arg = Idle /\ ret = Idle

\* tree, _ := NewABITObject(&[]byte{})
NewObject ==
  /\ steps < MaxOps
  /\ Len(maps) < MaxMaps
  /\ maps' = Append(maps, NewABITObject(<<>>).doc.tree)
  /\ lastOp' = [op |-> "NewABITObject"]
  /\ steps' = steps + 1
  /\ UNCHANGED <<arrs, backs, buf, res, hand, ival, ienc, arg, ret>>

\* arr := NewABITArray()
NewABITArray ==
  /\ steps < MaxOps
  /\ Len(arrs) < MaxCells
  /\ arrs' = Append(arrs, NilSlice)
  /\ lastOp' = [op |-> "NewABITArray"]
  /\ steps' = steps + 1
  /\ UNCHANGED <<maps, backs, buf, res, hand, ival, ienc, arg, ret>>

\* err := t.Put(key, value)
Put(t, key, value) ==
  /\ steps < MaxOps
  /\ value.go = "ABITArray" => Len(arrs) < MaxCells
  /\ LET r == PutResult(t, key, value)
     IN  /\ maps' = r.maps
         /\ arrs' = r.arrs
         /\ lastOp' = [op |-> "Put", t |-> t, key |-> key, value |-> value,
                       err |-> r.err]
  /\ steps' = steps + 1
  /\ UNCHANGED <<backs, buf, res, hand, ival, ienc, arg, ret>>

\* err := a.Add(value)
Add(a, value) ==
  /\ steps < MaxOps
  /\ value.go = "ABITArray" => Len(arrs) < MaxCells
  /\ LET r == AddResult(a, value)
     IN  /\ arrs' = r.arrs
         /\ backs' = r.backs
         /\ lastOp' = [op |-> "Add", a |-> a, value |-> value, err |-> r.err]
  /\ steps' = steps + 1
  /\ UNCHANGED <<maps, buf, res, hand, ival, ienc, arg, ret>>

\* t.Remove(key)
RemoveKey(t, key) ==
  /\ steps < MaxOps
  /\ maps' = [maps EXCEPT ![t.tree] = MapDelete(@, key)]
  /\ lastOp' = [op |-> "RemoveKey", t |-> t, key |-> key]
  /\ steps' = steps + 1
  /\ UNCHANGED <<arrs, backs, buf, res, hand, ival, ienc, arg, ret>>

\* err := a.Remove(index)
RemoveIndex(a, index) ==
  /\ steps < MaxOps
  /\ LET r == RemoveResult(a, index)
     IN  /\ arrs' = r.arrs
         /\ backs' = r.backs
         /\ lastOp' = [op |-> "RemoveIndex", a |-> a, index |-> index,
                       err |-> r.err]
  /\ steps' = steps + 1
  /\ UNCHANGED <<maps, buf, res, hand, ival, ienc, arg, ret>>

\* doc, err := t.ToByteArray(), the maps ranged over in the order it
CallToByteArray(t, it) ==
  /\ steps < MaxOps
  /\ lastOp' = [op |-> "ToByteArray", t |-> t, it |-> it,
                ret |-> HeapToByteArray(t, it)]
  /\ steps' = steps + 1
  /\ UNCHANGED <<maps, arrs, backs, buf, res, hand, ival, ienc, arg, ret>>

Next ==
  \/ NewObject
  \/ NewABITArray
  \/ \E t \in Trees \cup {ZeroObject}, key \in Keys, value \in Values :
       Put(t, key, value)
  \/ \E a \in Cells, value \in Values : Add(a, value)
  \/ \E t \in Trees, key \in Keys : RemoveKey(t, key)
  \/ \E a \in Cells, index \in -1..MaxOps : RemoveIndex(a, index)
  \/ \E t \in Trees, it \in Orders : CallToByteArray(t, it)

Spec == Init /\ [][Next]_vars

----------------------------------------------------------------------------
\* Properties checked under Spec

\* C1 (round trip): for every document built by Put/Add/Remove from an empty
\* tree, ToByteArray returns bytes that NewABITObject decodes, without an
\* error, into a document structurally equal to the one encoded (the same
\* variant at every node, the same payloads, key sets and element order).
C1_RoundTrip ==
  lastOp.op = "ToByteArray" =>
    /\ ~lastOp.ret.overflow
    /\ lastOp.ret.err = <<>>
    /\ NewABITObject(lastOp.ret.val).err = <<>>
    /\ NewABITObject(lastOp.ret.val).doc = Deref(lastOp.t)

\* C14 (re-encoding stability): for every document built through valid Put
\* and Add operations, ToByteArray returns bytes that NewABITObject decodes
\* without an error, and ToByteArray of the decoded document returns the
\* same bytes.
C14_ReencodeStable ==
  lastOp.op = "ToByteArray" =>
    /\ ~lastOp.ret.overflow
    /\ ~lastOp.ret.panic
    /\ NewABITObject(lastOp.ret.val).err = <<>>
    /\ \A it \in Orders :
         ToByteArray(NewABITObject(lastOp.ret.val).doc, it).val
           = lastOp.ret.val

\* C15 (array Remove bounds): Remove(index) on an Array returns the error
\* index out of bounds unless 0 <= index < length (so for every negative
\* index, for index = length, and for every index on an empty array), and a
\* Remove that returns an error leaves the Array unchanged.
C15_RemoveBounds ==
  [][(lastOp'.op = "RemoveIndex" /\ steps' = steps + 1) =>
       /\ lastOp'.err = Text("index out of bounds")
            <=> ~(0 <= lastOp'.index /\ lastOp'.index < arrs[lastOp'.a].len)
       /\ lastOp'.err # Text("index out of bounds") => lastOp'.err = <<>>
       /\ lastOp'.err # <<>> =>
            /\ arrs' = arrs /\ backs' = backs /\ maps' = maps
            /\ Elems(arrs'[lastOp'.a]) = Elems(arrs[lastOp'.a])]_vars

\* Remove(length) has returned the error on an array that holds elements
C15_Witness ==
  /\ lastOp.op = "RemoveIndex"
  /\ lastOp.err = Text("index out of bounds")
  /\ arrs[lastOp.a].len > 0
  /\ lastOp.index = arrs[lastOp.a].len

\* C7 (no cycles): after any sequence of Put, Add and Remove, a tree or array
\* put or added into itself or a descendant included, no Tree and no Array is
\* reachable from itself by following child links.
C7_NoCycles ==
  /\ \A t \in Trees : ~HasCycle(t, {})
  /\ \A a \in Cells : ~HasCycle(HArray(a), {})

\* the program called Put or Remove on the tree t in the step
MutatesTree(t) ==
  /\ lastOp'.op \in {"Put", "RemoveKey"}
  /\ steps' = steps + 1
  /\ lastOp'.t = t

\* C8 (exclusive ownership): once parent.Put(key, child) or arr.Add(child)
\* has adopted the Tree child, a Put or Remove called on the original child
\* leaves the contents of the parent tree, and of the parent array, as they
\* were.
C8_ExclusiveOwnership ==
  [][\A child \in Trees :
       MutatesTree(child) =>
         /\ \A parent \in Trees \ {child} :
              (/\ child \in Children(parent)
               /\ ~HasCycle(parent, {})
               /\ ~HasCycle(parent, {})')
                => Deref(parent)' = Deref(parent)
         /\ \A arr \in Cells :
              (/\ child \in Children(HArray(arr))
               /\ ~HasCycle(HArray(arr), {})
               /\ ~HasCycle(HArray(arr), {})')
                => Deref(HArray(arr))' = Deref(HArray(arr))]_vars

----------------------------------------------------------------------------
\* Specification SpecInt: the integer codec on sampled int64 values

\* every int64 whose bytes are 0x00, 0x7F, 0x80 or 0xFF: the bounds
\* -2^(8n-1) and 2^(8n-1)-1 of every width n, their neighbours 2^(8n-1) and
\* -2^(8n-1)-1, 0, -1, and the least and greatest int64
I64Samples == [1..8 -> {0, 127, 128, 255}]

\* the type codes encodeInteger is called with (an Integer, or the length of
\* a Blob, String, Array or Tree)
IntTypes == {TInteger, TBlob, TString, TArray, TTree}

InitInt ==
  /\ ival \in I64Samples
  /\ ienc = <<>>
  /\ maps = Idle /\ arrs = Idle /\ backs = Idle /\ steps = 0 /\ lastOp = NoOp
  /\ buf = Idle /\ res = NoRes /\ hand = Idle /\ arg = Idle /\ ret = Idle

EncodeInteger ==
  /\ ienc = <<>>
  /\ \E type_n \in IntTypes : ienc' = encodeInteger(ival, type_n)
  /\ UNCHANGED <<maps, arrs, backs, lastOp, steps, buf, res, hand, ival, arg, ret>>

NextInt == EncodeInteger

SpecInt == InitInt /\ [][NextInt]_vars

----------------------------------------------------------------------------
\* Properties checked under SpecInt

\* -2^(8n-1) <= v <= 2^(8n-1)-1 in two's complement: the bytes above the
\* n-th repeat the sign bit of the n-th
FitsWidth(v, n) ==
  \A i \in (n + 1)..8 : v[i] = (IF v[n] >= 128 THEN 255 ELSE 0)

\* the smallest n in 1..8 that v fits
MinWidth(v) ==
  CHOOSE n \in 1..8 : FitsWidth(v, n) /\ \A m \in 1..(n - 1) : ~FitsWidth(v, m)

\* the payload width the written examples give
ExampleWidths ==
  {<<Dec(<<1,2,7>>), 1>>, <<Dec(<<1,2,8>>), 2>>, <<Neg(Dec(<<1,2,9>>)), 2>>,
   <<Dec(<<3,2,7,6,7>>), 2>>, <<Dec(<<3,2,7,6,8>>), 3>>}

\* C10 (minimal integer width): for every int64 v, encodeInteger writes a tag
\* byte and then exactly n payload bytes, n the smallest width in 1..8 with
\* -2^(8n-1) <= v <= 2^(8n-1)-1, and the high nibble of the tag is n-1; 127
\* takes 1 byte, 128 takes 2, -129 takes 2, 32767 takes 2, 32768 takes 3.
C10_MinimalWidth ==
  ienc # <<>> =>
    /\ Len(ienc) = MinWidth(ival) + 1
    /\ ienc[1] \div 16 = MinWidth(ival) - 1
    /\ \A e \in ExampleWidths : ival = e[1] => Len(ienc) = e[2] + 1

\* 32768 is encoded, in three payload bytes
C10_Witness ==
  /\ ival = Dec(<<3,2,7,6,8>>)
  /\ ienc # <<>>
  /\ Len(ienc) = 4

\* the int64 whose low n bytes are the payload bytes p, in the order they are
\* written, and whose other bytes repeat the top bit of the last of them
SignExtended(p) ==
  [i \in 1..8 |-> IF i <= Len(p) THEN p[i]
                  ELSE IF p[Len(p)] >= 128 THEN 255 ELSE 0]

\* C22 (integer codec round trip): for every int64 v, decodeInteger with
\* maximum size 8 on the bytes encodeInteger wrote for v returns v, which is
\* the little-endian payload sign-extended from the top bit of its last byte,
\* and the offset start + 1 + byte count, wherever the field starts.
C22_IntegerRoundTrip ==
  ienc # <<>> =>
    /\ decodeInteger(ienc, 0, 8) =
         [err |-> <<>>, val |-> ival, off |-> 1 + ByteCount(ival)]
    /\ Len(ienc) = 1 + ByteCount(ival)
    /\ ival = SignExtended(Tail(ienc))
    /\ \A start \in 1..2 :
         decodeInteger([i \in 1..start |-> 0] \o ienc \o <<0>>, start, 8) =
           [err |-> <<>>, val |-> ival, off |-> start + 1 + ByteCount(ival)]

\* the least int64 is encoded, in eight payload bytes, and decoded
C22_Witness ==
  /\ ival = <<0, 0, 0, 0, 0, 0, 0, 128>>
  /\ Len(ienc) = 9
  /\ decodeInteger(ienc, 0, 8).val = ival

----------------------------------------------------------------------------
\* Specification SpecDecode: NewABITObject on every buffer over an alphabet

MaxBufLen == 6

\* 0x00 Null, a 1-byte key, a zero length; 0x01 false, a 2-byte key;
\* 0x02 a 1-byte Integer; 0x12 a 2-byte Integer; 0x05 an Array; 0x06 a Tree;
\* 0x61 "a"; 0xFE a negative length
Alphabet == {0, 1, 2, 5, 6, 18, 97, 254}

\* the buffers of n bytes
Buffers(n) == [1..n -> Alphabet]

InitDecode ==
  /\ \E n \in 0..MaxBufLen : buf \in Buffers(n)
  /\ res = NoRes
  /\ lastOp = NoOp
  /\ maps = Idle /\ arrs = Idle /\ backs = Idle /\ steps = 0
  /\ hand = Idle /\ ival = Idle /\ ienc = Idle /\ arg = Idle /\ ret = Idle

\* tree, err := NewABITObject(&buf)
Decode ==
  /\ res = NoRes
  /\ res' = NewABITObject(buf)
  /\ UNCHANGED <<maps, arrs, backs, lastOp, steps, buf, hand, ival, ienc, arg, ret>>

\* buf is what ToByteArray returns for the document decoded from it: decode
\* it again with its last byte removed
DecodeTruncated ==
  /\ res # NoRes
  /\ lastOp = NoOp
  /\ res.err = <<>>
  /\ Len(buf) > 0
  /\ ToByteArray(res.doc, <<>>).val = buf
  /\ buf' = SubSeq(buf, 1, Len(buf) - 1)
  /\ res' = NewABITObject(buf')
  /\ lastOp' = [op |-> "truncate", of |-> buf]
  /\ UNCHANGED <<maps, arrs, backs, steps, hand, ival, ienc, arg, ret>>

NextDecode == Decode \/ DecodeTruncated

SpecDecode == InitDecode /\ [][NextDecode]_vars

----------------------------------------------------------------------------
\* Properties checked under SpecDecode

\* NewABITObject(buf) has returned
Returned == res # NoRes /\ res.err # Diverges

\* C2 (one encoding per document): no two different buffers are both accepted
\* by NewABITObject and decode to equal documents; so for every accepted
\* buffer, ToByteArray of the decoded document returns exactly that buffer.
C2_UniqueEncoding ==
  (Returned /\ res.err = <<>>) => ToByteArray(res.doc, <<>>).val = buf

\* C5 (bounds rejection): for every non-empty buffer that ToByteArray
\* produces, NewABITObject of the buffer without its last byte returns an
\* error and no document.
C5_TruncationFails ==
  lastOp.op = "truncate" =>
    /\ res.err \notin {<<>>, Diverges}
    /\ res.doc = Nil

\* the encoding of a document holding an Array with one element was cut in
\* the array's payload, and decoded
C5_Witness ==
  /\ lastOp.op = "truncate"
  /\ lastOp.of = <<0, 97, 5, 1, 0>>
  /\ res.err = Text("length for blob exceeds the blob")

\* C6 (no partial decode): NewABITObject on a non-empty buffer returns either
\* a document and a nil error, or a nil document and an error; never a
\* document together with an error.
C6_NoPartialDecode ==
  (Returned /\ Len(buf) > 0) =>
    \/ res.err = <<>> /\ res.doc # Nil /\ res.doc = decodeTree(buf, 0, FALSE).val
    \/ res.err # <<>> /\ res.doc = Nil

\* decoding failed after decodeTree had stored a pair in its tree, and no
\* document came back
C6_Witness ==
  /\ Returned
  /\ res.err # <<>>
  /\ res.doc = Nil
  /\ DOMAIN decodeTree(buf, 0, FALSE).val.tree # {}

\* C19 (decode termination): NewABITObject terminates on every finite byte
\* buffer, whatever tags and length fields it holds: every call returns a
\* document or an error.
C19_DecodeTerminates ==
  res # NoRes => res.err # Diverges

RECURSIVE Overruns(_, _, _)
\* rest is an Array's payload of n bytes and the bytes that follow it in the
\* buffer: an element that starts at or after index inside the payload ends
\* beyond it, the elements before it decoded one after the other
Overruns(rest, index, n) ==
  IF index >= n THEN FALSE
  ELSE Bind(decodeValue(rest, index, At(rest, index) % 16), LAMBDA e :
         IF e.err # <<>> \/ e.off <= index THEN FALSE
         ELSE IF e.off > n THEN TRUE
         ELSE Overruns(rest, e.off, n))

\* decodeArray's loop on the payload has come to its end exactly, or to an
\* error, and to an error where an element runs over the payload's end
ConsumedOrFailed(rest, payload) ==
  Bind(decodeArrayLoop(payload, 0, <<>>, {}), LAMBDA r :
    /\ r.err = <<>> => r.off = Len(payload)
    /\ Overruns(rest, 0, Len(payload)) => r.err \notin {<<>>, Diverges})

\* C21 (array payload consumed exactly): decodeArray decodes the elements of
\* an Array one after the other from offset 0 of its payload until the
\* payload is exhausted exactly; no element reaches beyond the payload, and a
\* buffer whose last element runs over the payload's end fails to decode.
C21_ArrayConsumedExactly ==
  res # NoRes =>
    \A offset \in 0..(Len(buf) - 1) :
      Bind(decodeBlob(buf, offset), LAMBDA b :
        (At(buf, offset) % 16 = TArray /\ b.err = <<>>) =>
          /\ ConsumedOrFailed(Slice(buf, b.off - Len(b.val), Len(buf)), b.val)
          /\ decodeArrayLoop(b.val, 0, <<>>, {}).err # Diverges)

\* the part decodeArray keeps on every buffer
C21_ArrayBounds ==
  res # NoRes =>
    \A offset \in 0..(Len(buf) - 1) :
      Bind(decodeBlob(buf, offset), LAMBDA b :
        (At(buf, offset) % 16 = TArray /\ b.err = <<>>) =>
          ConsumedOrFailed(Slice(buf, b.off - Len(b.val), Len(buf)), b.val))

----------------------------------------------------------------------------
\* Specification SpecOrder: NewABITObject on hand-built buffers, laid out
\* as the wire format says but with the pairs of one Tree in any order

MaxPairs == 3

HandKeys == {KeyB, KeyAA, KeyAB}
HandValues == {ONull, OInt(Dec(<<5>>))}

\* where the Tree with the pairs sits: it is the document; the value of the
\* document's one key; the one element of an Array; a Tree inside a Tree
Wraps == {"top", "tree", "array", "deep"}

RECURSIVE LayPairs(_, _)
\* (key, value)*: each pair as encodeKey and the value's encoding write it
LayPairs(pairs, i) ==
  IF i > Len(pairs) THEN <<>>
  ELSE encodeKey(pairs[i][1]).val \o encodeObject(pairs[i][2], <<>>).val
         \o LayPairs(pairs, i + 1)

LayTree(payload) == encodeBlob(payload, TTree)

Lay(h) ==
  Bind(LayPairs(h.pairs, 1), LAMBDA payload :
    CASE h.wrap = "top" -> payload
      [] h.wrap = "tree" -> encodeKey(KeyB).val \o LayTree(payload)
      [] h.wrap = "array" ->
           encodeKey(KeyB).val \o encodeBlob(LayTree(payload), TArray)
      [] h.wrap = "deep" ->
           encodeKey(KeyB).val
             \o LayTree(encodeKey(KeyAA).val \o LayTree(payload)))

HandBuilt ==
  [wrap : Wraps,
   pairs : UNION {[1..n -> HandKeys \X HandValues] : n \in 0..MaxPairs}]

InitOrder ==
  /\ hand \in HandBuilt
  /\ buf = Lay(hand)
  /\ res = NoRes
  /\ lastOp = NoOp
  /\ maps = Idle /\ arrs = Idle /\ backs = Idle /\ steps = 0
  /\ ival = Idle /\ ienc = Idle /\ arg = Idle /\ ret = Idle

NextOrder == Decode

SpecOrder == InitOrder /\ [][NextOrder]_vars

----------------------------------------------------------------------------
\* Properties checked under SpecOrder

\* a comes before b in canonical order: it is shorter, or as long and smaller
\* at the first byte where the two differ
CanonLess(a, b) ==
  \/ Len(a) < Len(b)
  \/ /\ Len(a) = Len(b)
     /\ \E j \in 1..Len(a) :
          a[j] < b[j] /\ \A i \in 1..(j - 1) : a[i] = b[i]

\* some key of the pairs is not canonically greater than the key before it
Misordered(pairs) ==
  \E i \in 2..Len(pairs) : ~CanonLess(pairs[i - 1][1], pairs[i][1])

\* the error is the one decodeTree returns for a key out of order, whatever
\* the two keys it names
IsKeyOrderError(err) ==
  Len(err) >= 17 /\ SubSeq(err, 1, 17) = Text("invalid key order")

\* C4 (order rejection): NewABITObject fails with an invalid-key-order error
\* for every buffer in which, at any nesting level, a Tree key is not strictly
\* greater in canonical order (length first, then byte-lexicographic) than the
\* key before it in the same Tree, a duplicate key included.
C4_OrderRejection ==
  (res # NoRes /\ Misordered(hand.pairs)) =>
    /\ IsKeyOrderError(res.err)
    /\ res.doc = Nil

\* a Tree two levels down repeats a key, and the buffer was decoded
C4_Witness ==
  /\ res # NoRes
  /\ hand.wrap = "deep"
  /\ Len(hand.pairs) = 2
  /\ hand.pairs[1][1] = KeyAA
  /\ hand.pairs[2][1] = KeyAA
  /\ res.err = Text("invalid key order: (2)->(2), aa -> aa")

----------------------------------------------------------------------------
\* Specification SpecPut: a program holding two trees that fills them key by
\* key, puts the second into the first, and encodes

ShortKeys == {KeyB, KeyAA, KeyAB}

\* an int64 and the second tree
PutValues == {GoInt64(Dec(<<5>>)), GoObject(HTree(2))}

\* the orders a range over the short keys can take
PutOrders ==
  {it \in [1..3 -> ShortKeys] : \A i, j \in 1..3 : i # j => it[i] # it[j]}

InitPut ==
  /\ maps = <<EmptyMap, EmptyMap>>
  /\ arrs = <<>>
  /\ backs = <<>>
  /\ lastOp = NoOp
  /\ steps = 0
  /\ buf = Idle /\ res = NoRes /\ hand = Idle /\ ival = Idle /\ ienc = Idle /\ arg = Idle /\ ret = Idle

NextPut ==
  \/ \E t \in Trees, key \in ShortKeys, value \in PutValues : Put(t, key, value)
  \/ \E t \in Trees, it \in PutOrders : CallToByteArray(t, it)

SpecPut == InitPut /\ [][NextPut]_vars

----------------------------------------------------------------------------
\* Specification SpecKeys: a program that puts keys of every length into one
\* tree

LongKey == [i \in 1..300 |-> 32]

LengthKeys == {<<>>, KeyB, Key256, Key257, LongKey}

\* Null, a bool, a []byte, a string, the tree itself, and a value of no
\* supported type
KeyValues ==
  {GoNull, GoBool(TRUE), GoBytes(<<7>>), GoString(<<97>>), GoObject(HTree(1)),
   GoInt}

NextKeys ==
  \E t \in Trees \cup {ZeroObject}, key \in LengthKeys, value \in KeyValues :
    Put(t, key, value)

SpecKeys == Init /\ [][NextKeys]_vars

----------------------------------------------------------------------------
\* Properties checked under SpecPut and SpecKeys

\* the keys of the map m in canonical order
CanonKeys(m) ==
  CHOOSE s \in [1..Cardinality(DOMAIN m) -> DOMAIN m] :
    \A i, j \in DOMAIN s : i < j => CanonLess(s[i], s[j])

RECURSIVE CanonBytes(_), CanonPairsFrom(_, _, _)
\* the pairs of the Tree doc laid out in canonical key order, nested Trees
\* likewise
CanonBytes(doc) == CanonPairsFrom(doc.tree, CanonKeys(doc.tree), 1)

CanonPairsFrom(m, keys, i) ==
  IF i > Len(keys) THEN <<>>
  ELSE encodeKey(keys[i]).val
         \o (IF m[keys[i]].dataType = TTree
             THEN LayTree(CanonBytes(m[keys[i]]))
             ELSE encodeObject(m[keys[i]], <<>>).val)
         \o CanonPairsFrom(m, keys, i + 1)

\* C3 (encoder determinism): two Trees that hold the same key-to-value
\* mappings, recursively, but were filled by Puts in different orders are
\* encoded by ToByteArray to the same bytes, each Tree's pairs written in
\* canonical key order (a shorter key first, keys of one length in ascending
\* byte order).
C3_Deterministic ==
  /\ (lastOp.op = "ToByteArray" /\ ~lastOp.ret.overflow) =>
       /\ lastOp.ret.err = <<>>
       /\ lastOp.ret.val = CanonBytes(Deref(lastOp.t))
  /\ \A t1, t2 \in Trees, it1, it2 \in PutOrders :
       (~HasCycle(t1, {}) /\ ~HasCycle(t2, {}) /\ Deref(t1) = Deref(t2))
         => HeapToByteArray(t1, it1).val = HeapToByteArray(t2, it2).val

\* the first tree holds b and the second tree, which was filled later with
\* ab and b, and is encoded with the range giving ab before b
C3_Witness ==
  /\ lastOp.op = "ToByteArray"
  /\ lastOp.t = HTree(1)
  /\ lastOp.it = <<KeyAB, KeyB, KeyAA>>
  /\ DOMAIN maps[1] = {KeyB, KeyAB}
  /\ maps[1][KeyAB] = HTree(2)
  /\ DOMAIN maps[2] = {KeyB}
  /\ ~lastOp.ret.overflow

\* the values Put has a case for
Supported(value) ==
  value.go # "int" /\ (value.go = "ABITObject" => value.object.dataType = TTree)

\* C9 (key length boundary): Put(key, value) on a Tree succeeds for every key
\* of 1 to 256 bytes, 256 included, and returns an error for the empty key
\* and for every key of 257 bytes or more; a Put that returns an error leaves
\* the Tree unchanged.
C9_KeyLength ==
  [][(lastOp'.op = "Put" /\ steps' = steps + 1) =>
       /\ (lastOp'.t.dataType = TTree /\ Supported(lastOp'.value)) =>
            (lastOp'.err = <<>> <=> Len(lastOp'.key) \in 1..256)
       /\ lastOp'.err # <<>> => maps' = maps /\ arrs' = arrs /\ backs' = backs]_vars

\* the tree holds the key of 256 bytes, and a Put of the key of 257 bytes has
\* returned an error
C9_Witness ==
  /\ lastOp.op = "Put"
  /\ lastOp.key = Key257
  /\ lastOp.err = Text("key too long")
  /\ Key256 \in DOMAIN maps[lastOp.t.tree]

RECURSIVE KeysWithin(_)
\* every key of every Tree of the document o, at every level, has 1 to 256
\* bytes
KeysWithin(o) ==
  CASE o.dataType = TTree ->
         \A k \in DOMAIN o.tree : Len(k) \in 1..256 /\ KeysWithin(o.tree[k])
    [] o.dataType = TArray ->
         \A i \in DOMAIN o.array : KeysWithin(o.array[i])
    [] OTHER -> TRUE

\* a document with one pair, whose value is a Tree with one pair: the length
\* byte b, the bytes key, and Null
NestedKeyDocument(b, key) ==
  encodeKey(<<97>>).val \o LayTree(<<b>> \o key \o encodeNull)

\* C24 (key invariant): after any sequence of Puts starting from an empty
\* tree, every key of every Tree has 1 to 256 bytes; and every document
\* NewABITObject returns has only keys of 1 to 256 bytes, at every level.
C24_KeyInvariant ==
  /\ \A m \in DOMAIN maps : \A k \in DOMAIN maps[m] : Len(k) \in 1..256
  /\ lastOp.op = "Put" =>
       \A b \in {0, 1, 255} :
         /\ Bind(NewABITObject(NestedKeyDocument(b, lastOp.key)), LAMBDA r :
              r.err = <<>> => KeysWithin(r.doc))
         /\ Bind(decodeKey(<<b>> \o lastOp.key, 0), LAMBDA r :
              r.err = <<>> => Len(r.val) \in 1..256)

\* the tree holds the keys of 1 and of 256 bytes, a Put of the empty key has
\* returned an error, and the document with the key of 256 bytes in a nested
\* Tree decodes
C24_Witness ==
  /\ lastOp.op = "Put"
  /\ lastOp.key = <<>>
  /\ lastOp.err # <<>>
  /\ lastOp.t.dataType = TTree
  /\ {KeyB, Key256} \subseteq DOMAIN maps[lastOp.t.tree]
  /\ NewABITObject(NestedKeyDocument(255, Key256)).err = <<>>

\* C25 (key wire format): encodeKey writes one byte holding the key's length
\* less one and then the key's bytes, and decodeKey inverts it for every key
\* of 1 to 256 bytes: it returns the key and the offset start + 1 + length,
\* wherever the key starts; a length byte of 0 gives a key of 1 byte and a
\* length byte of 255 a key of 256 bytes.
C25_KeyRoundTrip ==
  \A m \in DOMAIN maps : \A k \in DOMAIN maps[m] :
    /\ encodeKey(k) = [err |-> <<>>, val |-> <<Len(k) - 1>> \o k]
    /\ \A start \in 0..2 :
         decodeKey([i \in 1..start |-> 7] \o encodeKey(k).val \o <<7>>, start) =
           [err |-> <<>>, val |-> k, off |-> start + 1 + Len(k)]
    /\ Len(k) = 1 => encodeKey(k).val[1] = 0
    /\ Len(k) = 256 => encodeKey(k).val[1] = 255
    /\ NewABITObject(encodeKey(k).val \o encodeNull) =
         [doc |-> OTree(MapPut(EmptyMap, k, ONull)), err |-> <<>>]

\* the tree holds the key of 256 bytes, which is written after the length
\* byte 255 and read back whole
C25_Witness ==
  /\ \E m \in DOMAIN maps : Key256 \in DOMAIN maps[m]
  /\ decodeKey(<<255>> \o Key256, 0) = [err |-> <<>>, val |-> Key256, off |-> 257]

----------------------------------------------------------------------------
\* Lexicon. A lexicon is written as JSON; json.Unmarshal turns the text into
\* Go values, which are modelled by what the type switches of
\* jsonTypeTreeToABIT and jsonTypeArrayToABIT tell apart: a string, a
\* []interface{}, a map[string]interface{}, and anything else (a number, a
\* boolean, null).

JString(x) == [json |-> "string", str |-> x]
JArray(items) == [json |-> "array", items |-> items]
JObject(members) == [json |-> "object", members |-> members]
JNumber == [json |-> "number"]
JNull == [json |-> "null"]

\* a call that panicked, and one that returned v
Panicked == [panic |-> TRUE]
Done(v) == [panic |-> FALSE, val |-> v]

\* switch t { case "null": ... default: panic(...) }: the value that Add or
\* Put is handed for a type name
jsonTypeName(t) ==
  CASE t = "null" -> Done(ONull)
    [] t = "boolean" -> Done(OBool(FALSE))
    [] t = "integer" -> Done(OInt(I64Zero))
    [] t = "blob" -> Done(OBlob(<<>>))
    [] t = "string" -> Done(OText(<<>>))
    [] OTHER -> Panicked

RECURSIVE jsonTypeArrayToABIT(_)
RECURSIVE jsonTypeTreeToABIT(_)

\* switch t := lexicon[i].(type) of both functions: the object that is
\* added to the array, or put under the key
jsonTypeValue(t) ==
  CASE t.json = "string" -> jsonTypeName(t.str)
    [] t.json = "array" ->
         Bind(jsonTypeArrayToABIT(t.items), LAMBDA r :
           IF r.panic THEN Panicked ELSE Done(OArray(r.val)))
    [] t.json = "object" -> jsonTypeTreeToABIT(t.members)
    [] OTHER -> Panicked

\* the ABITArray of a []interface{}, as its elements
jsonTypeArrayToABIT(lexicon) ==
  Bind([i \in DOMAIN lexicon |-> jsonTypeValue(lexicon[i])], LAMBDA c :
    IF \E i \in DOMAIN c : c[i].panic THEN Panicked
    ELSE Done([i \in DOMAIN c |-> c[i].val]))

\* the ABITObject of a map[string]interface{}; tree.Put returns an error for
\* a key that is empty or longer than 256 bytes, and the error is a panic
jsonTypeTreeToABIT(lexicon) ==
  Bind([k \in DOMAIN lexicon |-> jsonTypeValue(lexicon[k])], LAMBDA c :
    IF \E k \in DOMAIN c : c[k].panic \/ PutKeyInvalid(k) THEN Panicked
    ELSE Done(OTree([k \in DOMAIN c |-> c[k].val])))

\* json.Unmarshal into a map[string]interface{} leaves the map nil for the
\* text null and returns an error for every text that is not an object
InitLexicon(lexicon) ==
  CASE lexicon.json = "object" ->
         Bind(jsonTypeTreeToABIT(lexicon.members), LAMBDA r :
           IF r.panic THEN Panicked ELSE Done([lexicon |-> r.val]))
    [] lexicon.json = "null" ->
         Bind(jsonTypeTreeToABIT(EmptyMap), LAMBDA r :
           IF r.panic THEN Panicked ELSE Done([lexicon |-> r.val]))
    [] OTHER -> Panicked

\* a.tree: the map of a Tree, and the nil map of every other object
TreeField(a) == IF a.dataType = TTree THEN a.tree ELSE EmptyMap

RECURSIVE matchTree(_, _, _)
RECURSIVE matchArray(_, _, _)

\* a matchArray that compares the two arrays as bags of variants
matchArrayAnyOrder(a, b, it) ==
  IF a.dataType # TArray \/ b.dataType # TArray THEN FALSE
  ELSE IF Len(a.array) # Len(b.array) THEN FALSE
  ELSE \A i \in 1..Len(a.array) : \E j \in 1..Len(b.array) :
         /\ a.array[i].dataType = b.array[j].dataType
         /\ CASE a.array[i].dataType = TArray ->
                   matchArray(a.array[i], b.array[j], it)
              [] a.array[i].dataType = TTree ->
                   matchTree(a.array[i], b.array[j], it)
              [] OTHER -> TRUE

\* a matchTree that also compares the scalars under a key by value
matchKeysByValue(a, b, keys1, keys2, it) ==
  IF Len(keys1) # Len(keys2) THEN FALSE
  ELSE IF \E i \in 1..Len(keys1) : keys1[i] # keys2[i] THEN FALSE
  ELSE \A i \in 1..Len(keys1) :
         /\ a.tree[keys1[i]].dataType = b.tree[keys1[i]].dataType
         /\ CASE a.tree[keys1[i]].dataType = TArray ->
                   matchArray(a.tree[keys1[i]], b.tree[keys1[i]], it)
              [] a.tree[keys1[i]].dataType = TTree ->
                   matchTree(a.tree[keys1[i]], b.tree[keys1[i]], it)
              [] OTHER -> a.tree[keys1[i]] = b.tree[keys1[i]]

\* matchTree from the count of the keys on; keys1 and keys2 are handed over
\* as sort.Slice leaves them (sorting changes no length)
matchKeys(a, b, keys1, keys2, it) ==
  IF Len(keys1) # Len(keys2) THEN FALSE
  ELSE IF \E i \in 1..Len(keys1) : keys1[i] # keys2[i] THEN FALSE
  ELSE \A i \in 1..Len(keys1) :
         /\ a.tree[keys1[i]].dataType = b.tree[keys1[i]].dataType
         /\ CASE a.tree[keys1[i]].dataType = TArray ->
                   matchArray(a.tree[keys1[i]], b.tree[keys1[i]], it)
              [] a.tree[keys1[i]].dataType = TTree ->
                   matchTree(a.tree[keys1[i]], b.tree[keys1[i]], it)
              [] OTHER -> TRUE

\* it is the order in which the two range loops deliver the keys
matchTree(a, b, it) ==
  matchKeys(a, b, SortSlice(RangeKeys(TreeField(a), it)),
            SortSlice(RangeKeys(TreeField(b), it)), it)

matchArray(a, b, it) ==
  IF a.dataType # TArray \/ b.dataType # TArray THEN FALSE
  ELSE IF Len(a.array) # Len(b.array) THEN FALSE
  ELSE \A i \in 1..Len(a.array) :
         /\ a.array[i].dataType = b.array[i].dataType
         /\ CASE a.array[i].dataType = TArray ->
                   matchArray(a.array[i], b.array[i], it)
              [] a.array[i].dataType = TTree ->
                   matchTree(a.array[i], b.array[i], it)
              [] OTHER -> TRUE

\* l.Matches(doc)
Matches(l, doc, it) == matchTree(l.lexicon, doc, it)

----------------------------------------------------------------------------
\* SpecMatch: a lexicon text and two documents are given; InitLexicon builds
\* the lexicon and Matches is called on each document.

\* the values under the key "b" of a document
DocValues ==
  { ONull, OBool(TRUE), OBool(FALSE), OInt(I64Zero), OInt(Dec(<<5>>)),
    OBlob(<<>>), OBlob(<<7>>), OText(<<>>), OText(<<97>>),
    OArray(<<>>),
    OArray(<<OInt(Dec(<<5>>)), OText(<<97>>)>>),
    OArray(<<OText(<<97>>), OInt(Dec(<<5>>))>>),
    OArray(<<OInt(I64Zero), OText(<<>>)>>),
    OArray(<<OArray(<<ONull>>)>>),
    OArray(<<OTree(MapPut(EmptyMap, KeyB, OBool(TRUE)))>>),
    OTree(MapPut(EmptyMap, KeyB, OInt(Dec(<<5>>)))),
    OTree(MapPut(EmptyMap, KeyB, OInt(I64Zero))),
    OTree(MapPut(EmptyMap, KeyB, OText(<<97>>))) }

\* documents: "b" is absent or holds one of DocValues, "aa" is absent or
\* holds an integer
Docs ==
  { OTree(t) : t \in
      {EmptyMap, MapPut(EmptyMap, KeyAA, OInt(Dec(<<5>>)))}
        \cup { MapPut(EmptyMap, KeyB, v) : v \in DocValues }
        \cup { MapPut(MapPut(EmptyMap, KeyAA, OInt(Dec(<<5>>))), KeyB, v) :
                 v \in DocValues } }

\* the JSON values under the key "b" of a lexicon text
LexiconValues ==
  { JString("null"), JString("boolean"), JString("integer"), JString("blob"),
    JString("string"), JString("float"), JNumber,
    JArray(<<>>),
    JArray(<<JString("integer"), JString("string")>>),
    JArray(<<JString("string"), JString("integer")>>),
    JArray(<<JArray(<<JString("null")>>)>>),
    JArray(<<JObject(MapPut(EmptyMap, KeyB, JString("boolean")))>>),
    JObject(MapPut(EmptyMap, KeyB, JString("integer"))),
    JObject(MapPut(EmptyMap, KeyB, JString("string"))),
    JObject(MapPut(EmptyMap, <<>>, JString("null"))) }

\* lexicon texts: objects over "b" and "aa", the text null, and an array
LexiconTexts ==
  { JObject(m) : m \in
      {EmptyMap, MapPut(EmptyMap, KeyAA, JString("integer"))}
        \cup { MapPut(EmptyMap, KeyB, v) : v \in LexiconValues }
        \cup { MapPut(MapPut(EmptyMap, KeyAA, JString("integer")), KeyB, v) :
                 v \in LexiconValues } }
    \cup {JNull, JArray(<<>>)}

\* hand before InitLexicon is called, ret before Matches is called
NoLexicon == [called |-> FALSE]
NoRet == [called |-> FALSE]

InitMatch ==
  /\ arg \in [text : LexiconTexts, doc : Docs, other : Docs]
  /\ hand = NoLexicon
  /\ ret = NoRet
  /\ maps = Idle /\ arrs = Idle /\ backs = Idle /\ steps = 0 /\ lastOp = NoOp
  /\ buf = Idle /\ res = NoRes /\ ival = Idle /\ ienc = Idle

\* l := InitLexicon(text)
CallInitLexicon ==
  /\ hand = NoLexicon
  /\ hand' = InitLexicon(arg.text)
  /\ UNCHANGED <<maps, arrs, backs, lastOp, steps, buf, res, ival, ienc, arg, ret>>

\* l.Matches(&doc) and l.Matches(&other)
CallMatches ==
  /\ hand # NoLexicon
  /\ ~hand.panic
  /\ ~ret.called
  /\ \E it \in Orders :
       ret' = [called |-> TRUE,
               doc |-> Matches(hand.val, arg.doc, it),
               other |-> Matches(hand.val, arg.other, it)]
  /\ UNCHANGED <<maps, arrs, backs, lastOp, steps, buf, res, hand, ival, ienc, arg>>

NextMatch == CallInitLexicon \/ CallMatches

SpecMatch == InitMatch /\ [][NextMatch]_vars

----------------------------------------------------------------------------
\* Properties checked under SpecMatch

RECURSIVE SameShape(_, _)
\* two values have the same shape: the same variant, for Arrays the same
\* length and the same shape at every position, for Trees the same key set
\* and the same shape under every key
SameShape(a, b) ==
  /\ a.dataType = b.dataType
  /\ a.dataType = TArray =>
       /\ Len(a.array) = Len(b.array)
       /\ \A i \in 1..Len(a.array) : SameShape(a.array[i], b.array[i])
  /\ a.dataType = TTree =>
       /\ DOMAIN a.tree = DOMAIN b.tree
       /\ \A k \in DOMAIN a.tree : SameShape(a.tree[k], b.tree[k])

\* C11 (structural matching): Matches(lexicon, doc) returns true exactly
\* when the lexicon Tree and the document Tree have identical key sets, the
\* same variant under each key, Arrays of equal length with the same variant
\* at each position, and nested Trees and Arrays that match recursively.
C11_StructuralMatch ==
  ret.called =>
    /\ ret.doc <=> SameShape(hand.val.lexicon, arg.doc)
    /\ ret.other <=> SameShape(hand.val.lexicon, arg.other)

\* Matches has returned false for a document whose array holds the two
\* variants of the lexicon's array in the other order, false for a document
\* that lacks a key of the lexicon, and true for a document of its shape
C11_Witness ==
  /\ ret.called
  /\ arg.text = JObject(MapPut(MapPut(EmptyMap, KeyAA, JString("integer")),
                  KeyB, JArray(<<JString("integer"), JString("string")>>)))
  /\ arg.doc = OTree(MapPut(MapPut(EmptyMap, KeyAA, OInt(Dec(<<5>>))),
                 KeyB, OArray(<<OText(<<97>>), OInt(Dec(<<5>>))>>)))
  /\ arg.other = OTree(MapPut(MapPut(EmptyMap, KeyAA, OInt(Dec(<<5>>))),
                   KeyB, OArray(<<OInt(Dec(<<5>>)), OText(<<97>>)>>)))
  /\ ~ret.doc
  /\ ret.other

\* C12 (leaf values are ignored): two documents with the same keys, array
\* lengths and variants at every position, which differ at most in scalar
\* payloads, get the same answer from Matches against every lexicon.
C12_LeafValuesIgnored ==
  (ret.called /\ SameShape(arg.doc, arg.other)) => ret.doc = ret.other

\* two documents that differ in an integer, a string and an array's
\* payloads only, and both match a lexicon built from type names
C12_Witness ==
  /\ ret.called
  /\ arg.doc # arg.other
  /\ DOMAIN arg.doc.tree = {KeyB}
  /\ DOMAIN arg.other.tree = {KeyB}
  /\ arg.doc.tree[KeyB] = OArray(<<OInt(Dec(<<5>>)), OText(<<97>>)>>)
  /\ arg.other.tree[KeyB] = OArray(<<OInt(I64Zero), OText(<<>>)>>)
  /\ ret.doc /\ ret.other

----------------------------------------------------------------------------
\* SpecEncode: ToByteArray is called on a tree as the struct fields allow it,
\* keys of any length and objects of any dataType included (the fields are
\* exported in src/abit/abit.go and open to the package in src/abit.go).

\* an ABITObject whose dataType is none of the seven
OInvalid == [dataType |-> 7]

EncodeKeys == {<<>>, KeyB, KeyAA, Key257}

EncodeValues ==
  { ONull, OInt(Dec(<<5>>)), OInvalid, OArray(<<OText(<<97>>), OInvalid>>),
    OTree(MapPut(EmptyMap, <<>>, ONull)), OTree(MapPut(EmptyMap, KeyB, ONull)) }

\* the trees with at most two of the keys
EncodeTrees ==
  { OTree(m) : m \in UNION { [K -> EncodeValues] :
                   K \in {L \in SUBSET EncodeKeys : Cardinality(L) <= 2} } }

InitEncode ==
  /\ arg \in EncodeTrees
  /\ ret = NoRet
  /\ maps = Idle /\ arrs = Idle /\ backs = Idle /\ steps = 0 /\ lastOp = NoOp
  /\ buf = Idle /\ res = NoRes /\ hand = Idle /\ ival = Idle /\ ienc = Idle

\* arg.ToByteArray(); failed records what encodeTree returned as its error
EncodeDocument ==
  /\ ~ret.called
  /\ \E it \in Orders :
       ret' = [called |-> TRUE,
               failed |-> encodeTree(arg, FALSE, it).err,
               out |-> ToByteArray(arg, it)]
  /\ UNCHANGED <<maps, arrs, backs, lastOp, steps, buf, res, hand, ival, ienc, arg>>

SpecEncode == InitEncode /\ [][EncodeDocument]_vars

----------------------------------------------------------------------------
\* Properties checked under SpecEncode

\* C13 (encode failure is reported): whenever encodeTree returns an error
\* (a key whose length is outside 1..256, an object of unrecognized type),
\* ToByteArray returns that error to its caller, and no bytes.
C13_EncodeFailureReported ==
  (ret.called /\ ret.failed # <<>>) =>
    /\ ~ret.out.panic
    /\ ret.out.err = ret.failed
    /\ ret.out.val = <<>>

----------------------------------------------------------------------------
\* Array accessors, on the elements of an ABITArray

\* the Go type of what get returns for each dataType
GoTypeOf(dataType) ==
  <<"Null", "bool", "int64", "*[]byte", "*string", "*ABITArray",
    "*ABITObject">>[dataType + 1]

\* (interface{}, error) of a.get(index); a.array[index] is not guarded, and
\* an index outside the slice is a run-time panic
ArrayGet(a, index) ==
  IF index < 0 \/ index >= Len(a)
  THEN [panic |-> TRUE, err |-> <<>>, go |-> "none"]
  ELSE IF a[index + 1].dataType \in 0..6
  THEN [panic |-> FALSE, err |-> <<>>, go |-> GoTypeOf(a[index + 1].dataType),
        val |-> a[index + 1]]
  ELSE [panic |-> FALSE, err |-> Text("object trying to be fetched is invalid"),
        go |-> "int"]

\* the typed accessors of ABITArray: the case of the type switch and the
\* error of a value of another type
Accessors ==
  { [name |-> "GetNull", go |-> "Null",
     err |-> Text("object trying to be fetched is not a null")],
    [name |-> "GetBool", go |-> "bool",
     err |-> Text("object trying to be fetched is not a boolean")],
    [name |-> "GetInteger", go |-> "int64",
     err |-> Text("object trying to be fetched is not an integer")],
    [name |-> "GetBlob", go |-> "*[]byte",
     err |-> Text("object trying to be fetched is not a blob")],
    [name |-> "GetString", go |-> "*string",
     err |-> Text("object trying to be fetched is not a string")],
    [name |-> "GetArray", go |-> "*ABITArray",
     err |-> Text("object trying to be fetched is not an array")],
    [name |-> "GetTree", go |-> "*ABITObject",
     err |-> Text("object trying to be fetched is not a tree")] }

\* a.GetNull(index), ..., a.GetTree(index): the accessor g
ArrayGetTyped(a, index, g) ==
  Bind(ArrayGet(a, index), LAMBDA r :
    IF r.panic \/ r.err # <<>> THEN [panic |-> r.panic, err |-> r.err]
    ELSE IF r.go = g.go THEN [panic |-> FALSE, err |-> <<>>, val |-> r.val]
    ELSE [panic |-> FALSE, err |-> g.err])

----------------------------------------------------------------------------
\* SpecGet: a typed accessor is called on an array of up to two elements

Elements ==
  { ONull, OBool(TRUE), OInt(Dec(<<5>>)), OBlob(<<7>>), OText(<<97>>),
    OArray(<<ONull>>), OTree(EmptyMap), OInvalid }

InitGet ==
  /\ arg \in [array : UNION {[1..n -> Elements] : n \in 0..2}, index : -1..2]
  /\ ret = NoRet
  /\ maps = Idle /\ arrs = Idle /\ backs = Idle /\ steps = 0 /\ lastOp = NoOp
  /\ buf = Idle /\ res = NoRes /\ hand = Idle /\ ival = Idle /\ ienc = Idle

CallAccessor ==
  /\ ~ret.called
  /\ \E g \in Accessors :
       ret' = [called |-> TRUE, g |-> g,
               out |-> ArrayGetTyped(arg.array, arg.index, g)]
  /\ UNCHANGED <<maps, arrs, backs, lastOp, steps, buf, res, hand, ival, ienc, arg>>

SpecGet == InitGet /\ [][CallAccessor]_vars

----------------------------------------------------------------------------
\* Properties checked under SpecGet

\* C16 (array accessors report errors): ABITArray.GetString(index), and
\* likewise every other typed array accessor, returns a non-nil error and
\* does not crash, both when the item at index is not of the requested type
\* and when index is out of bounds for the array.
C16_AccessorsReportErrors ==
  ret.called =>
    /\ ~ret.out.panic
    /\ (arg.index < 0 \/ arg.index >= Len(arg.array)) => ret.out.err # <<>>
    /\ (arg.index >= 0 /\ arg.index < Len(arg.array)
          /\ arg.array[arg.index + 1].dataType \in 0..6
          /\ GoTypeOf(arg.array[arg.index + 1].dataType) # ret.g.go)
         => ret.out.err # <<>>

----------------------------------------------------------------------------
\* SpecPair: NewABITObject is called on a buffer, and the first sub-decode
\* of its tree loop is observed: the value of the first pair, decoded at the
\* offset decodeKey returns.

MaxPairLen == 8

\* 0x00 Null, a 1-byte key, the key "\x00"; 0x01 false, a length of 1, the
\* key "\x01"; 0x06 a Tree; 0xFE a negative length
PairAlphabet == {0, 1, 6, 254}

InitPair ==
  /\ \E n \in 0..MaxPairLen : buf \in [1..n -> PairAlphabet]
  /\ res = NoRes
  /\ ret = NoRet
  /\ maps = Idle /\ arrs = Idle /\ backs = Idle /\ steps = 0 /\ lastOp = NoOp
  /\ hand = Idle /\ ival = Idle /\ ienc = Idle /\ arg = Idle

\* tree, err := NewABITObject(&buf); ret is the call of the switch on typ in
\* the first iteration of decodeTree's loop: the offset it is called with,
\* the type, and what it returns
DecodeFirstPair ==
  /\ res = NoRes
  /\ res' = NewABITObject(buf)
  /\ ret' = IF Len(buf) = 0 \/ decodeKey(buf, 0).err # <<>>
               \/ decodeType(buf, decodeKey(buf, 0).off).err # <<>>
            THEN NoRet
            ELSE [called |-> TRUE,
                  at |-> decodeKey(buf, 0).off,
                  typ |-> decodeType(buf, decodeKey(buf, 0).off).val,
                  out |-> decodeValue(buf, decodeKey(buf, 0).off,
                            decodeType(buf, decodeKey(buf, 0).off).val)]
  /\ UNCHANGED <<maps, arrs, backs, lastOp, steps, buf, hand, ival, ienc, arg>>

SpecPair == InitPair /\ [][DecodeFirstPair]_vars

----------------------------------------------------------------------------
\* Properties checked under SpecPair

\* C17 (nested Tree payload containment): when decodeTree succeeds on a
\* nested Tree whose payload of declared length n starts at offset p, the
\* pairs it parsed end at p+n, where the enclosing container resumes; a
\* buffer in which the last pair of the nested Tree extends past p+n is
\* rejected.
C17_NestedContainment ==
  (ret.called /\ ret.typ = TTree /\ ret.out.err = <<>> /\ res.err = <<>>) =>
    /\ ret.out.off = decodeInteger(buf, ret.at, 4).off
                       + I64ToInt(decodeInteger(buf, ret.at, 4).val)
    /\ ret.out.index = ret.out.off

\* C18 (decoder progress): every successful sub-decode returns an offset
\* strictly greater than the offset it was called with, for every input
\* buffer and every value of the length fields.
C18_DecoderProgress ==
  (ret.called /\ ret.out.err = <<>>) => ret.out.off > ret.at

----------------------------------------------------------------------------
\* SpecLength: a Blob, a String, an Array or a nested Tree with a payload
\* of arg.len bytes. The encoder writes it; and NewABITObject is called on a
\* document in which its length field is written by hand as an unsigned
\* number in the fewest bytes.

MaxPayload == 300

\* len zero bytes
Zeros(len) == [i \in 1..len |-> 0]

\* values whose encodings take len bytes together: nothing, a Null, or a
\* Blob of zero bytes as encodeBlob writes it (after a Null where no single
\* Blob has that size)
Filler(len) ==
  IF len = 0 THEN [bytes |-> <<>>, vals |-> <<>>]
  ELSE IF len = 1 THEN [bytes |-> encodeNull, vals |-> <<ONull>>]
  ELSE IF len = 130
  THEN [bytes |-> encodeNull \o encodeBlob(Zeros(127), TBlob),
        vals |-> <<ONull, OBlob(Zeros(127))>>]
  ELSE IF len <= 129
  THEN [bytes |-> encodeBlob(Zeros(len - 2), TBlob),
        vals |-> <<OBlob(Zeros(len - 2))>>]
  ELSE [bytes |-> encodeBlob(Zeros(len - 3), TBlob),
        vals |-> <<OBlob(Zeros(len - 3))>>]

\* the payload lengths of a Tree that holds nothing, or one value under "a"
TreeLengths == (0..MaxPayload) \ {1, 2, 132}

\* a payload of len bytes: zero bytes for a Blob and a String, the elements
\* of Filler for an Array, and for a Tree the key "a" and one value
Payload(type_n, len) ==
  CASE type_n = TArray -> Filler(len).bytes
    [] type_n = TTree ->
         IF len = 0 THEN <<>> ELSE encodeKey(<<97>>).val \o Filler(len - 2).bytes
    [] OTHER -> Zeros(len)

\* the value that the payload is the encoding of
PayloadValue(type_n, len) ==
  CASE type_n = TBlob -> OBlob(Zeros(len))
    [] type_n = TString -> OText(Zeros(len))
    [] type_n = TArray -> OArray(Filler(len).vals)
    [] type_n = TTree ->
         IF len = 0 THEN OTree(EmptyMap)
         ELSE OTree(MapPut(EmptyMap, <<97>>, Filler(len - 2).vals[1]))

\* the least number of bytes that hold len as an unsigned number
UnsignedWidth(len) ==
  IF len < 256 THEN 1 ELSE IF len < 65536 THEN 2 ELSE IF len < 16777216 THEN 3 ELSE 4

\* tag byte and length field, len written little-endian in n bytes
LengthField(type_n, len, n) ==
  <<(n - 1) * 16 + type_n>> \o [i \in 1..n |-> (len \div (256 ^ (i - 1))) % 256]

InitLength ==
  /\ arg \in { a \in [len : 0..MaxPayload, type : {TBlob, TString, TArray, TTree}] :
                 a.type = TTree => a.len \in TreeLengths }
  /\ ienc = <<>>
  /\ buf = <<>>
  /\ res = NoRes
  /\ maps = Idle /\ arrs = Idle /\ backs = Idle /\ steps = 0 /\ lastOp = NoOp
  /\ hand = Idle /\ ival = Idle /\ ret = Idle

\* encodeBlob(&payload, type): how encodeBlob, encodeString, encodeArray and
\* a nested encodeTree write the payload
EncodeLength ==
  /\ ienc = <<>>
  /\ ienc' = encodeBlob(Payload(arg.type, arg.len), arg.type)
  /\ UNCHANGED <<maps, arrs, backs, lastOp, steps, buf, res, hand, ival, arg, ret>>

\* NewABITObject on the document {"a": value} with the unsigned length field
DecodeUnsigned ==
  /\ res = NoRes
  /\ buf' = <<0, 97>>
              \o LengthField(arg.type, arg.len, UnsignedWidth(arg.len))
              \o Payload(arg.type, arg.len)
  /\ res' = NewABITObject(buf')
  /\ UNCHANGED <<maps, arrs, backs, lastOp, steps, hand, ival, ienc, arg, ret>>

NextLength == EncodeLength \/ DecodeUnsigned

SpecLength == InitLength /\ [][NextLength]_vars

----------------------------------------------------------------------------
\* Properties checked under SpecLength

\* C20 (unsigned length fields): the length field of a Blob, String, Array
\* or nested Tree is an unsigned byte count: the decoder takes the payload
\* length to be the little-endian unsigned value of its N bytes (a 1-byte
\* field 0x80 denotes a 128-byte payload), and the encoder writes a payload
\* length in the fewest bytes that hold it as an unsigned value.
C20_UnsignedLength ==
  /\ res # NoRes =>
       /\ res.err = <<>>
       /\ res.doc = OTree(MapPut(EmptyMap, <<97>>, PayloadValue(arg.type, arg.len)))
  /\ ienc # <<>> =>
       ienc = LengthField(arg.type, arg.len, UnsignedWidth(arg.len))
                \o Payload(arg.type, arg.len)

\* the length field has its top bit set when read as UnsignedWidth bytes
TopBitSet(len) == (len \div (256 ^ (UnsignedWidth(len) - 1))) % 256 >= 128

\* C20 as the code has it (signed length fields): the length field is a
\* two's-complement number that the decoder sign-extends. The encoder writes
\* a payload length in the fewest bytes that hold it as a signed value (128
\* takes two bytes), and what it writes decodes to the payload. A field
\* whose top bit is set denotes a negative length and never the payload: a
\* 1-byte field 0x80 is -128, and the Blob, String or Array is refused with
\* the error negative length for blob; a field whose top bit is clear
\* denotes its unsigned value.
C20_SignedLength ==
  /\ ienc # <<>> =>
       /\ ienc = LengthField(arg.type, arg.len, MinWidth(I64FromInt(arg.len)))
                   \o Payload(arg.type, arg.len)
       /\ NewABITObject(<<0, 97>> \o ienc).err = <<>>
       /\ NewABITObject(<<0, 97>> \o ienc).doc
            = OTree(MapPut(EmptyMap, <<97>>, PayloadValue(arg.type, arg.len)))
  /\ (res # NoRes /\ ~TopBitSet(arg.len)) =>
       /\ res.err = <<>>
       /\ res.doc = OTree(MapPut(EmptyMap, <<97>>, PayloadValue(arg.type, arg.len)))
  /\ (res # NoRes /\ TopBitSet(arg.len)) =>
       /\ res.err # <<>>
       /\ res.doc = Nil
       /\ arg.type # TTree => res.err = Text("negative length for blob")

\* a Blob of 128 bytes: the encoder has written the length as 80 00, and the
\* document with the 1-byte length field 80 has been refused
C20_Witness ==
  /\ arg = [len |-> 128, type |-> TBlob]
  /\ Len(ienc) > 3 /\ Len(buf) > 4
  /\ SubSeq(ienc, 1, 3) = <<16 + TBlob, 128, 0>>
  /\ SubSeq(buf, 3, 4) = <<TBlob, 128>>
  /\ res.err = Text("negative length for blob")

----------------------------------------------------------------------------
\* SpecTag: NewABITObject is called on a document of one pair, key "a",
\* whose value starts with any byte arg.tag and goes on with arg.pad zero
\* bytes; the value stands under the key, or in an Array whose payload it
\* fills.

MaxPad == 9

\* the bytes of the value, and the document around them
TagValue == <<arg.tag>> \o Zeros(arg.pad)
TagDocument ==
  IF arg.inArray
  THEN encodeKey(<<97>>).val \o encodeBlob(TagValue, TArray)
  ELSE encodeKey(<<97>>).val \o TagValue

InitTag ==
  /\ arg \in [tag : 0..255, pad : 0..MaxPad, inArray : BOOLEAN]
  /\ buf = TagDocument
  /\ res = NoRes
  /\ lastOp = NoOp
  /\ maps = Idle /\ arrs = Idle /\ backs = Idle /\ steps = 0
  /\ hand = Idle /\ ival = Idle /\ ienc = Idle /\ ret = Idle

SpecTag == InitTag /\ [][Decode]_vars

----------------------------------------------------------------------------
\* Properties checked under SpecTag

\* the value is all of what follows the key, or of the Array's payload: a
\* single byte under the key, a byte and Nulls in the Array
AloneOrInArray == arg.inArray \/ arg.pad = 0

\* the elements after the first one
NullPad == [i \in 1..arg.pad |-> ONull]

\* the document NewABITObject returns when the first value is v
TagDecoded(v) ==
  OTree(MapPut(EmptyMap, <<97>>,
                 IF arg.inArray THEN OArray(<<v>> \o NullPad) ELSE v))

\* C30 (strict Null and Boolean bytes): a value byte whose low nibble is 0
\* is accepted as Null only if the whole byte is 0x00, one whose low nibble
\* is 1 is accepted as Boolean only if it is 0x01 (false) or 0x11 (true);
\* every other byte with low nibble 0 or 1 makes the whole decode fail.
C30_StrictNullBoolean ==
  (res # NoRes /\ AloneOrInArray) =>
    /\ arg.tag % 16 = 0 =>
         /\ arg.tag = 0 => res.err = <<>> /\ res.doc = TagDecoded(ONull)
         /\ arg.tag # 0 => res.err = Text("byte is not null") /\ res.doc = Nil
    /\ arg.tag % 16 = 1 =>
         /\ arg.tag = 1 => res.err = <<>> /\ res.doc = TagDecoded(OBool(FALSE))
         /\ arg.tag = 17 => res.err = <<>> /\ res.doc = TagDecoded(OBool(TRUE))
         /\ arg.tag \notin {1, 17} =>
              res.err = Text("byte is not boolean") /\ res.doc = Nil

\* the byte 0x10 as an element of an Array before two Nulls was refused
C30_Witness ==
  /\ arg = [tag |-> 16, pad |-> 2, inArray |-> TRUE]
  /\ res.err = Text("byte is not null")

\* the byte count the tag announces, and the maximum of its context
TagSize == arg.tag \div 16 + 1
TagMax == IF arg.tag % 16 = TInteger THEN 8 ELSE 4

\* C23 (decodeInteger rejects oversize and truncated fields): decodeInteger
\* fails with the error integer is too big (which names the offset of the
\* field) whenever the byte count of the
\* tag's high nibble plus one exceeds the maximum of its context (4 for a
\* length field, 8 for an Integer), and with an out-of-bounds error whenever
\* the tag byte or one of the announced bytes lies beyond the end of the
\* buffer; otherwise it returns the offset after the bytes. The decode of a
\* document with such a field fails with that error.
C23_IntegerFieldChecks ==
  /\ \A maxSize \in {4, 8} :
       /\ decodeInteger(TagValue, 0, maxSize).err =
            (IF TagSize > maxSize THEN Text("integer is too big at 0")
             ELSE IF 1 + TagSize > Len(TagValue) THEN Text("integer is out of bounds")
             ELSE <<>>)
       /\ decodeInteger(TagValue, 0, maxSize).err = <<>> =>
            decodeInteger(TagValue, 0, maxSize).off = 1 + TagSize
       /\ \A offset \in {-1, Len(TagValue), Len(TagValue) + 1} :
            decodeInteger(TagValue, offset, maxSize).err = Text("integer exceeds blob")
       /\ decodeInteger(<<0, 97>> \o TagValue, 2, maxSize).err =
            (IF TagSize > maxSize THEN Text("integer is too big at 2")
             ELSE IF 1 + TagSize > Len(TagValue) THEN Text("integer is out of bounds")
             ELSE <<>>)
  /\ (res # NoRes /\ arg.inArray /\ arg.tag % 16 \in TInteger..TTree) =>
       /\ TagSize > TagMax => res.err = Text("integer is too big at 0")
       /\ (TagSize <= TagMax /\ 1 + TagSize > Len(TagValue)) =>
            res.err = Text("integer is out of bounds")
       /\ res.err \in {Text("integer is too big at 0"), Text("integer is out of bounds")} =>
            res.doc = Nil

\* an Integer whose tag announces 9 bytes, all of them present, was refused
\* as too big, where a length field is refused from 5 bytes on
C23_Witness ==
  /\ arg = [tag |-> 130, pad |-> 9, inArray |-> TRUE]
  /\ res.err = Text("integer is too big at 0")
  /\ decodeInteger(TagValue, 0, 4).err = Text("integer is too big at 0")
  /\ decodeInteger(<<66>> \o Zeros(5), 0, 4).err = Text("integer is too big at 0")
  /\ decodeInteger(<<66>> \o Zeros(5), 0, 8).err = <<>>

----------------------------------------------------------------------------
\* Properties checked under Spec: what Put, Add and Remove do to the
\* container they are called on

\* the variant a value of a supported Go type is stored as
TypeOfGo(value) ==
  CASE value.go = "Null" -> TNull
    [] value.go = "bool" -> TBoolean
    [] value.go = "int64" -> TInteger
    [] value.go = "[]byte" -> TBlob
    [] value.go = "string" -> TString
    [] value.go = "ABITArray" -> TArray
    [] value.go = "ABITObject" -> TTree

\* no container of the value passed is reachable from itself
ValueAcyclic(value) ==
  CASE value.go = "ABITArray" ->
         \A i \in 1..value.array.len : ~HasCycle(Elems(value.array)[i], {})
    [] value.go = "ABITObject" -> ~HasCycle(value.object, {})
    [] OTHER -> TRUE

\* the document the value passed is, for a value that ValueAcyclic holds of
ContentOf(value) ==
  CASE value.go = "Null" -> ONull
    [] value.go = "bool" -> OBool(value.boolean)
    [] value.go = "int64" -> OInt(value.integer)
    [] value.go = "[]byte" -> OBlob(value.blob)
    [] value.go = "string" -> OText(value.text)
    [] value.go = "ABITArray" ->
         OArray([i \in 1..value.array.len |-> Deref(Elems(value.array)[i])])
    [] value.go = "ABITObject" -> Deref(value.object)

\* the object o is in the step what it was: the same object, and if it
\* held a finite document, the same document
Kept(o) ==
  ~HasCycle(o, {}) => (~HasCycle(o, {}))' /\ Deref(o)' = Deref(o)

\* the object n holds, after the step, the document c
Holds(n, c) == (~HasCycle(n, {}))' /\ Deref(n)' = c

\* the keys of the tree t other than key map, after the Put, to what they
\* mapped to, and key maps to the value
PutEffect(t, key, value) ==
  /\ DOMAIN maps'[t.tree] = DOMAIN maps[t.tree] \cup {key}
  /\ Cardinality(DOMAIN maps'[t.tree]) =
       Cardinality(DOMAIN maps[t.tree])
         + (IF key \in DOMAIN maps[t.tree] THEN 0 ELSE 1)
  /\ \A k \in DOMAIN maps[t.tree] \ {key} :
       /\ maps'[t.tree][k] = maps[t.tree][k]
       /\ Kept(maps[t.tree][k])
  /\ maps'[t.tree][key].dataType = TypeOfGo(value)
  /\ ValueAcyclic(value) =>
       \A c \in {ContentOf(value)}, n \in {maps'[t.tree][key]} : Holds(n, c)

\* C27 (Put inserts or overwrites one mapping): a successful Put(key, value)
\* on a Tree makes key map to value, whatever was stored under key, and
\* leaves the mapping of every other key as it was; the number of keys grows
\* by 1 if key was absent and is unchanged otherwise.
C27_PutEffect ==
  [][(lastOp'.op = "Put" /\ steps' = steps + 1 /\ lastOp'.err = <<>>) =>
       \A t \in {lastOp'.t}, key \in {lastOp'.key}, value \in {lastOp'.value} :
         PutEffect(t, key, value)]_vars

\* the part Put keeps: the statement for every Put that stores no tree into
\* itself or into a tree that holds it
C27_PutEffectNoCycle ==
  [][(lastOp'.op = "Put" /\ steps' = steps + 1 /\ lastOp'.err = <<>>) =>
       \A t \in {lastOp'.t}, key \in {lastOp'.key}, value \in {lastOp'.value} :
         (~HasCycle(t, {}))' => PutEffect(t, key, value)]_vars

\* Arrays long enough for a Remove in the middle: one array, filled by Add
\* with elements that differ from one another and emptied by Remove, as in
\*   arr := NewABITArray(); arr.Add(...); ...; arr.Remove(index)

MaxArrayOps == 6

\* the array
TheArray == 1

\* the values added: Null, two Integers and the tree
ElementValues ==
  {GoNull, GoInt64(Dec(<<1,2,8>>)), GoInt64(Dec(<<5>>)), GoObject(HTree(1))}

\* tree, _ := NewABITObject(&[]byte{}); arr := NewABITArray()
InitRemove ==
  /\ maps = <<EmptyMap>>
  /\ arrs = <<NilSlice>>
  /\ backs = <<>>
  /\ lastOp = NoOp
  /\ steps = 0
  /\ buf = Idle /\ res = NoRes /\ hand = Idle /\ ival = Idle /\ ienc = Idle /\ arg = Idle /\ ret = Idle

\* err := arr.Add(value)
AddElement(value) ==
  /\ steps < MaxArrayOps
  /\ LET r == AddResult(TheArray, value)
     IN  /\ arrs' = r.arrs
         /\ backs' = r.backs
         /\ lastOp' = [op |-> "Add", a |-> TheArray, value |-> value,
                       err |-> r.err]
  /\ steps' = steps + 1
  /\ UNCHANGED <<maps, buf, res, hand, ival, ienc, arg, ret>>

\* err := arr.Remove(index)
RemoveElement(index) ==
  /\ steps < MaxArrayOps
  /\ LET r == RemoveResult(TheArray, index)
     IN  /\ arrs' = r.arrs
         /\ backs' = r.backs
         /\ lastOp' = [op |-> "RemoveIndex", a |-> TheArray, index |-> index,
                       err |-> r.err]
  /\ steps' = steps + 1
  /\ UNCHANGED <<maps, buf, res, hand, ival, ienc, arg, ret>>

NextRemove ==
  \/ \E value \in ElementValues : AddElement(value)
  \/ \E index \in -1..MaxArrayOps : RemoveElement(index)

SpecRemove == InitRemove /\ [][NextRemove]_vars

\* C28 (array Remove effect): a successful Remove(index) on an Array of
\* length n removes the element at index alone: the elements before index
\* keep their positions, each element after index moves down by one
\* position, in the same order, and the length becomes n-1.
C28_RemoveEffect ==
  [][(lastOp'.op = "RemoveIndex" /\ steps' = steps + 1 /\ lastOp'.err = <<>>) =>
       \A a \in {lastOp'.a}, index \in {lastOp'.index} :
         /\ arrs'[a].len = arrs[a].len - 1
         /\ Len(Elems(arrs[a]))' = Len(Elems(arrs[a])) - 1
         /\ \A j \in 1..(arrs[a].len - 1) :
              \A o \in {Elems(arrs[a])[IF j <= index THEN j ELSE j + 1]} :
                /\ (Elems(arrs[a])[j])' = o
                /\ Kept(o)]_vars

\* Remove(1) on four elements that differ has left the first in its place
\* and moved the third and the fourth down, in their order
C28_Witness ==
  /\ lastOp.op = "RemoveIndex"
  /\ lastOp.err = <<>>
  /\ lastOp.index = 1
  /\ Elems(arrs[TheArray]) = <<OInt(Dec(<<5>>)), HTree(1), OInt(Dec(<<1,2,8>>))>>
  /\ SubSeq(backs[3], 1, 4) = <<OInt(Dec(<<5>>)), ONull, HTree(1), OInt(Dec(<<1,2,8>>))>>

\* the elements of the array a are, after the Add, what they were, and the
\* value after them
AddEffect(a, value) ==
  /\ arrs'[a].len = arrs[a].len + 1
  /\ \A j \in 1..arrs[a].len :
       \A o \in {Elems(arrs[a])[j]} :
         /\ (Elems(arrs[a])[j])' = o
         /\ Kept(o)
  /\ (Elems(arrs[a])[arrs[a].len])'.dataType = TypeOfGo(value)
  /\ ValueAcyclic(value) =>
       \A c \in {ContentOf(value)} :
         (~HasCycle(Elems(arrs[a])[arrs[a].len], {})
            /\ Deref(Elems(arrs[a])[arrs[a].len]) = c)'

\* C29 (Add appends): Add(value) with a supported value makes value the last
\* element of the Array, keeps the elements it held at their positions, and
\* makes the length greater by exactly 1; Add with an unsupported value (an
\* ABITObject that is no Tree included) returns an error and leaves the Array
\* as it was.
C29_AddEffect ==
  [][(lastOp'.op = "Add" /\ steps' = steps + 1) =>
       \A a \in {lastOp'.a}, value \in {lastOp'.value} :
         IF Supported(value)
         THEN lastOp'.err = <<>> /\ AddEffect(a, value)
         ELSE /\ lastOp'.err # <<>>
              /\ arrs' = arrs /\ backs' = backs /\ maps' = maps]_vars

\* the part Add keeps: the statement for every Add that stores no tree and
\* no array into an array it holds
C29_AddEffectNoCycle ==
  [][(lastOp'.op = "Add" /\ steps' = steps + 1) =>
       \A a \in {lastOp'.a}, value \in {lastOp'.value} :
         IF Supported(value)
         THEN /\ lastOp'.err = <<>>
              /\ (~HasCycle(HArray(a), {}))' => AddEffect(a, value)
         ELSE /\ lastOp'.err # <<>>
              /\ arrs' = arrs /\ backs' = backs /\ maps' = maps]_vars

----------------------------------------------------------------------------
\* Matches on the heap. The lexicon is the value InitLexicon built; the
\* document is an object of the heap, whose map and array are read through
\* maps, arrs and backs as the code reads them through its pointers. A call
\* returns "true" or "false". A call of matchTree or matchArray on a pair
\* of objects that a call still on the stack is working on repeats that
\* call's work and so never returns: the goroutine's stack overflows, a
\* fatal error. path holds the pairs of the calls on the stack.

RECURSIVE matchTreeHeap(_, _, _, _), matchArrayHeap(_, _, _, _)
RECURSIVE matchKeysHeap(_, _, _, _, _, _), matchElemsHeap(_, _, _, _, _)

\* the body of both loops for one pair of children: the dataType test and
\* the switch
matchValueHeap(x, y, it, path) ==
  IF x.dataType # y.dataType THEN "false"
  ELSE CASE x.dataType = TArray -> matchArrayHeap(x, y, it, path)
         [] x.dataType = TTree -> matchTreeHeap(x, y, it, path)
         [] OTHER -> "true"

\* a loop that matches every child of the document against the lexicon node
\* it is called with
matchKeysHeapSameNode(a, b, keys1, i, it, path) ==
  IF i > Len(keys1) THEN "true"
  ELSE Bind(matchValueHeap(a, maps[b.tree][keys1[i]], it, path), LAMBDA r :
         IF r # "true" THEN r
         ELSE matchKeysHeap(a, b, keys1, i + 1, it, path))

\* for i := range keys1 { ... } of matchTree, from the i-th key on
matchKeysHeap(a, b, keys1, i, it, path) ==
  IF i > Len(keys1) THEN "true"
  ELSE Bind(matchValueHeap(a.tree[keys1[i]], maps[b.tree][keys1[i]], it, path),
            LAMBDA r :
         IF r # "true" THEN r
         ELSE matchKeysHeap(a, b, keys1, i + 1, it, path))

\* matchTree(a, b), the two range loops delivering the keys in the order it
matchTreeHeap(a, b, it, path) ==
  IF <<a, b>> \in path THEN "overflow"
  ELSE Bind(SortSlice(RangeKeys(TreeField(a), it)), LAMBDA keys1 :
       Bind(SortSlice(RangeKeys(maps[b.tree], it)), LAMBDA keys2 :
         IF Len(keys1) # Len(keys2) THEN "false"
         ELSE IF \E i \in 1..Len(keys1) : keys1[i] # keys2[i] THEN "false"
         ELSE matchKeysHeap(a, b, keys1, 1, it, path \cup {<<a, b>>})))

\* for i := range a.array.array { ... } of matchArray, from the i-th element
\* on
matchElemsHeap(a, b, i, it, path) ==
  IF i > Len(a.array) THEN "true"
  ELSE Bind(matchValueHeap(a.array[i], Elems(arrs[b.array])[i], it, path),
            LAMBDA r :
         IF r # "true" THEN r
         ELSE matchElemsHeap(a, b, i + 1, it, path))

\* matchArray(a, b)
matchArrayHeap(a, b, it, path) ==
  IF <<a, b>> \in path THEN "overflow"
  ELSE IF a.dataType # TArray \/ b.dataType # TArray THEN "false"
  ELSE IF Len(a.array) # arrs[b.array].len THEN "false"
  ELSE matchElemsHeap(a, b, 1, it, path \cup {<<a, b>>})

\* l.Matches(&doc) for a document of the heap
MatchesHeap(l, doc, it) == matchTreeHeap(l.lexicon, doc, it, {})

----------------------------------------------------------------------------
\* Specification SpecHeapMatch: the program of Spec, which also builds a
\* lexicon from a text and calls Matches on the trees it holds

\* {"b": {"b": {"b": "null"}}}, {"b": [{"b": []}]},
\* {"aa": "null", "b": {}}, the text null, and a text that is no object
HeapLexiconTexts ==
  { JObject(MapPut(EmptyMap, KeyB,
      JObject(MapPut(EmptyMap, KeyB,
        JObject(MapPut(EmptyMap, KeyB, JString("null"))))))),
    JObject(MapPut(EmptyMap, KeyB,
      JArray(<<JObject(MapPut(EmptyMap, KeyB, JArray(<<>>)))>>))),
    JObject(MapPut(MapPut(EmptyMap, KeyAA, JString("null")), KeyB,
                   JObject(EmptyMap))),
    JNull, JArray(<<>>) }

InitHeapMatch ==
  /\ maps = <<EmptyMap>>
  /\ arrs = <<>>
  /\ backs = <<>>
  /\ lastOp = NoOp
  /\ steps = 0
  /\ arg \in [text : HeapLexiconTexts]
  /\ hand = NoLexicon
  /\ ret = NoRet
  /\ buf = Idle /\ res = NoRes /\ ival = Idle /\ ienc = Idle

\* ok := l.Matches(&t)
CallMatchesHeap(t, it) ==
  /\ steps < MaxOps
  /\ hand # NoLexicon
  /\ ~hand.panic
  /\ ret' = [called |-> TRUE, t |-> t, out |-> MatchesHeap(hand.val, t, it)]
  /\ lastOp' = [op |-> "Matches", t |-> t]
  /\ steps' = steps + 1
  /\ UNCHANGED <<maps, arrs, backs, buf, res, hand, ival, ienc, arg>>

NextHeapMatch ==
  \/ Next
  \/ CallInitLexicon
  \/ \E t \in Trees, it \in Orders : CallMatchesHeap(t, it)

SpecHeapMatch == InitHeapMatch /\ [][NextHeapMatch]_vars

----------------------------------------------------------------------------
\* Properties checked under SpecHeapMatch

\* C26 (matcher totality and termination): Matches(lexicon, document)
\* returns true or false, without a crash and without recursing for ever,
\* for every lexicon InitLexicon built and every document the program built
\* by Put, Add and Remove.
C26_MatchesReturns ==
  ret.called => ret.out \in {"true", "false"}

\* Matches has returned false, with the lexicon {"b": {"b": {"b": "null"}}},
\* for a tree that holds itself under "b", as the last operation
C26_Witness ==
  /\ ret.called
  /\ lastOp.op = "Matches"
  /\ arg.text.json = "object"
  /\ hand.val.lexicon.tree[KeyB].dataType = TTree
  /\ DOMAIN hand.val.lexicon.tree[KeyB].tree = {KeyB}
  /\ maps[ret.t.tree] = MapPut(EmptyMap, KeyB, ret.t)
  /\ ret.out = "false"

====
